---- MODULE Spec2Model ----
(***************************************************************************)
(* Chat relay: gateway sessions (websocket_endpoint), the NATS bus, the    *)
(* history worker (run_service) and the history stores (MessageHistory).   *)
(*                                                                         *)
(* Strings are sequences of one-character strings, an absent value (None)  *)
(* is the one-element sequence None, a JSON object is a record whose       *)
(* fields are its keys.                                                    *)
(***************************************************************************)
EXTENDS Integers, Sequences, FiniteSets, TLC

(***************************************************************************)
(* Bounds                                                                  *)
(***************************************************************************)
MaxTexts == 2
MaxFaults == 1
MaxPings == 3
MaxEvents == 2
MaxSaves == 3
MaxCalls == 2
MaxAttempts == 7

(***************************************************************************)
(* Values                                                                  *)
(***************************************************************************)
None == <<"None">>
Whitespace == {" "}
Sessions == {"s1", "s2"}
Callers == {"c1", "c2"}
Variants == {"prototype", "legacy"}
Directory == {1, 2}
RoomIds == Directory \cup {999}
UsernameParams == {None, <<>>, <<" ">>, <<"a">>, <<" ", "b", " ">>}
Texts == {<<" ", "h", " ">>, <<" ">>}
HISTORY_LIMIT == 50
DEFAULT_LIMIT == 100
CLOSE_POLICY_VIOLATION == 1008
CLOSE_TRY_AGAIN_LATER == 1013

(***************************************************************************)
(* str.strip()                                                             *)
(***************************************************************************)
RECURSIVE lstrip(_)
lstrip(s) ==
    IF s # <<>> /\ Head(s) \in Whitespace THEN lstrip(Tail(s)) ELSE s

RECURSIVE rstrip(_)
rstrip(s) ==
    IF s # <<>> /\ s[Len(s)] \in Whitespace
    THEN rstrip(SubSeq(s, 1, Len(s) - 1))
    ELSE s

strip(s) == rstrip(lstrip(s))

(***************************************************************************)
(* dict.get(key): the value, None for a missing key                        *)
(***************************************************************************)
Get(d, k) == IF k \in DOMAIN d THEN d[k] ELSE None

(***************************************************************************)
(* ChatMessage: the text validator and the JSON dump by alias              *)
(***************************************************************************)
_trim_text_keeps_blank(v) == IF v = None THEN v ELSE strip(v)

_trim_text(v) ==
    IF v = None THEN v
    ELSE LET t == strip(v) IN IF t # <<>> THEN t ELSE None

ChatMessage(type, server_id, username, text, event, now) ==
    [type |-> type, serverId |-> server_id, username |-> username,
     text |-> _trim_text(text), event |-> event, timestamp |-> now]

model_dump_json(m) ==
    [type |-> m.type, server_id |-> m.serverId, username |-> m.username,
     text |-> m.text, event |-> m.event, timestamp |-> m.timestamp]

(***************************************************************************)
(* The legacy gateway's payloads (json.dumps of a literal dict)            *)
(***************************************************************************)
legacy_join_payload(server_id, username) ==
    [type |-> <<"system">>, event |-> <<"join">>, serverId |-> server_id,
     username |-> username]

legacy_message_payload(server_id, text, username) ==
    [type |-> <<"message">>, serverId |-> server_id, text |-> text,
     username |-> username]

legacy_leave_payload(server_id, username) ==
    [type |-> <<"system">>, event |-> <<"leave">>, serverId |-> server_id,
     username |-> username]

(***************************************************************************)
(* State                                                                   *)
(***************************************************************************)
VARIABLES
    variant,            \* which gateway serves the connection
    pc,                 \* position of websocket_endpoint
    server_id,          \* path parameter of the connection
    username,           \* query parameter, stripped once validated
    accepted,           \* websocket.accept() was called
    closeCode,          \* code of websocket.close(), 0 when not called
    wsOpen,             \* the client side of the transport is connected
    subActive,          \* the session's chat.<id> subscription is open
    unsubCalls,         \* number of sub.unsubscribe() calls
    send_queue,         \* asyncio.Queue filled by nats_message_handler
    sender_task,        \* "none", "running", "ended", "cancelled"
    sent,               \* frames written to the client transport
    history_messages,   \* records still to replay
    received,           \* texts returned by receive_text()
    pubFailed,          \* a publish of the session raised
    closing,            \* the steps of the finally block attempted so far
    enqueued,           \* every payload nats_message_handler put on send_queue
    forwarded,          \* every payload ws_sender wrote to the client
    fetched,            \* what the history fetch of the session came to
    replayed,           \* the sends of the replay loop and how each ended
    stream,             \* every payload published on a chat.<id> subject
    wpc,                \* position of run_service
    watchQ,             \* last subject token of the pings pending in the
                        \* chat.history.watch.* subscription
    pings,              \* pings delivered to the worker so far, per room,
                        \* under 0 those on a subject of no room
    active_room_subs,   \* key set of the worker's room mapping
    workerSubs,         \* number of chat.<id> subscriptions of the worker
    workerQ,            \* payloads pending in the worker's room subs
    saveFailed,         \* a save_message of the worker raised
    legacy_sub,         \* the legacy worker's chat.> subscription is open
    legacy_inbox,       \* what that subscription received, and whether
                        \* handler is through with it
    table,              \* rows of the Postgres table messages
    clock,              \* datetime.now()
    faults,             \* failures the environment may still inject
    backend,            \* which MessageHistory class is in use
    files,              \* lines of server_<id>_history.jsonl, per room
    saved,              \* the save_message calls made, cleared ones dropped
    last_call,          \* the last call on the store and what it returned
    pool,               \* self.pool of the Postgres store, 0 for None
    pools,              \* number of pools asyncpg.create_pool has returned
    schema_done,        \* an _ensure_schema has completed
    ppc,                \* the call each user of the store is in, where it
                        \* is suspended, and how many calls it has finished
    queried,            \* the queries executed: by which call, on which
                        \* pool, and whether the schema was in place
    _nats_connection,   \* the module-level cache of get_nats, 0 for None
    connections,        \* state of every connection nats.connect returned
    cpc,                \* position of each get_nats caller
    calls,              \* get_nats calls each caller has completed
    returned,           \* what each caller's last get_nats returned
    _js,                \* the module-level cache of get_jetstream: the
                        \* connection its context is bound to, 0 for None
    js,                 \* what get_jetstream returned to each caller
    attempt,            \* run_service: failed message_history.init() calls
    sleeps,             \* run_service: the delays slept between the calls
    storeUp,            \* the database accepts connections
    missed,             \* pings published before the discovery subscription
    handlerRaised,      \* an exception left the persistence handler
    shutdown            \* the steps of run_service's finally block so far

sessVars == <<variant, pc, server_id, username, accepted, closeCode, wsOpen,
              subActive, unsubCalls, send_queue, sender_task, sent,
              history_messages, received, pubFailed, closing, enqueued,
              forwarded, fetched, replayed>>
workerVars == <<wpc, watchQ, pings, active_room_subs, workerSubs, workerQ,
                saveFailed, legacy_sub, legacy_inbox>>
gatewayVars == <<sessVars, stream, workerVars, table, clock, faults>>
poolVars == <<pool, pools, schema_done, ppc, queried>>
storeVars == <<backend, files, saved, last_call, poolVars>>
connVars == <<_nats_connection, connections, cpc, calls, returned, _js, js>>
serviceVars == <<attempt, sleeps, storeUp, missed, handlerRaised, shutdown>>

(***************************************************************************)
(* Timestamps: an ISO-8601 string is the instant it denotes, its UTC       *)
(* offset, and whether datetime.fromisoformat() parses it                  *)
(***************************************************************************)
utc(n) == [inst |-> n, offset |-> 0, valid |-> TRUE]

Min(a, b) == IF a < b THEN a ELSE b

(***************************************************************************)
(* Postgres-backed MessageHistory (chatroom_prototype/history_io.py)       *)
(***************************************************************************)
\* the timestamptz value save_message computes from message_data
pg_timestamp(message_data, now) ==
    IF "timestamp" \notin DOMAIN message_data THEN now
    ELSE IF message_data.timestamp.valid THEN message_data.timestamp.inst
    ELSE now

save_message_pg(tab, sid, message_data, now) ==
    Append(tab, [server_id |-> sid,
                 type |-> Get(message_data, "type"),
                 event |-> Get(message_data, "event"),
                 username |-> Get(message_data, "username"),
                 text |-> Get(message_data, "text"),
                 timestamp |-> pg_timestamp(message_data, now),
                 raw_data |-> message_data])

\* the row numbers of a room, in every order ORDER BY timestamp ASC allows
RECURSIVE OrderByTimestamp(_, _)
OrderByTimestamp(tab, I) ==
    IF I = {} THEN {<<>>}
    ELSE UNION { { <<i>> \o rest : rest \in OrderByTimestamp(tab, I \ {i}) } :
                 i \in { j \in I : \A k \in I :
                            tab[j].timestamp <= tab[k].timestamp } }

\* the results SELECT ... WHERE server_id = $1 ORDER BY timestamp ASC LIMIT $2
\* can return
get_messages_pg(tab, sid, limit) ==
    LET I == { i \in 1..Len(tab) : tab[i].server_id = sid }
    IN  { [k \in 1..Min(limit, Len(o)) |-> tab[o[k]].raw_data] :
          o \in OrderByTimestamp(tab, I) }

(***************************************************************************)
(* The bus: a publish on chat.<sid> reaches the subscriptions open at that *)
(* moment.  A session's subscription runs nats_message_handler, which puts *)
(* the payload on send_queue as it came; the worker's subscriptions hold   *)
(* it until handler runs.  The CHAT stream keeps every payload of the      *)
(* chat.* subjects.  Time passes with every publish.                       *)
(***************************************************************************)
Repeat(x, n) == [i \in 1..n |-> x]

\* A subject is its tokens; the room id is written in decimal.
room_subject(sid) == <<"chat", ToString(sid)>>

\* f"chat.history.watch.{server_id}"
watch_subject(sid) == <<"chat", "history", "watch", ToString(sid)>>

\* Subject matching of the bus: * stands for exactly one token, > for one
\* or more tokens at the end.
RECURSIVE subject_matches_star_as_tail(_, _)
subject_matches_star_as_tail(pattern, subject) ==
    IF pattern = <<>> THEN subject = <<>>
    ELSE IF subject = <<>> THEN FALSE
    ELSE IF Head(pattern) \in {">", "*"} /\ Len(pattern) = 1 THEN TRUE
    ELSE /\ Head(pattern) \in {"*", Head(subject)}
         /\ subject_matches_star_as_tail(Tail(pattern), Tail(subject))

RECURSIVE subject_matches(_, _)
subject_matches(pattern, subject) ==
    IF pattern = <<>> THEN subject = <<>>
    ELSE IF subject = <<>> THEN FALSE
    ELSE IF Head(pattern) = ">" /\ Len(pattern) = 1 THEN TRUE
    ELSE /\ Head(pattern) \in {"*", Head(subject)}
         /\ subject_matches(Tail(pattern), Tail(subject))

\* the sessions whose room subscription gets what is published on subject
Subscribers(subject) ==
    { t \in Sessions : /\ subActive[t]
                       /\ subject_matches(room_subject(server_id[t]),
                                          subject) }

\* what the legacy worker's subscription holds after a publish on subject
legacy_received(subject, payload) ==
    IF legacy_sub /\ subject_matches(<<"chat", ">">>, subject)
    THEN Append(legacy_inbox, [subject |-> subject, data |-> payload,
                               handled |-> FALSE])
    ELSE legacy_inbox

Publish(s, sid, payload) ==
    /\ clock' = clock + 1
    /\ stream' = Append(stream, [subject |-> sid, by |-> s, data |-> payload])
    /\ send_queue' = [t \in Sessions |->
                        IF t \in Subscribers(room_subject(sid))
                        THEN Append(send_queue[t], payload)
                        ELSE send_queue[t]]
    /\ enqueued' = [t \in Sessions |->
                        IF t \in Subscribers(room_subject(sid))
                        THEN Append(enqueued[t], payload)
                        ELSE enqueued[t]]
    /\ workerQ' = [workerQ EXCEPT
                      ![sid] = @ \o Repeat(payload, workerSubs[sid])]
    /\ legacy_inbox' = legacy_received(room_subject(sid), payload)

\* nc.publish(f"chat.history.watch.{sid}", b"{}"): the bus hands the ping to
\* every subscription whose subject matches (the worker's discovery
\* subscription is on chat.history.watch.*), and the CHAT stream keeps it if
\* its subject chat.* matches; the payload {} is the object without a key
PublishPing(s, sid) ==
    LET subject == watch_subject(sid)
    IN  /\ stream' = IF subject_matches(<<"chat", "*">>, subject)
                     THEN Append(stream, [subject |-> sid, by |-> s,
                                          data |-> <<>>])
                     ELSE stream
        /\ send_queue' = [t \in Sessions |->
                            IF t \in Subscribers(subject)
                            THEN Append(send_queue[t], <<>>)
                            ELSE send_queue[t]]
        /\ enqueued' = [t \in Sessions |->
                            IF t \in Subscribers(subject)
                            THEN Append(enqueued[t], <<>>)
                            ELSE enqueued[t]]
        /\ workerQ' = [r \in DOMAIN workerQ |->
                         IF subject_matches(room_subject(r), subject)
                         THEN workerQ[r] \o Repeat(<<>>, workerSubs[r])
                         ELSE workerQ[r]]
        /\ LET watched ==
                   /\ wpc = "running"
                   /\ subject_matches(<<"chat", "history", "watch", "*">>,
                                      subject)
           IN  /\ watchQ' = IF watched
                           THEN Append(watchQ, subject[Len(subject)])
                           ELSE watchQ
               /\ pings' = IF watched
                           THEN [pings EXCEPT ![sid] = @ + 1]
                           ELSE pings
        /\ legacy_inbox' = legacy_received(subject, <<>>)

NoPublish ==
    UNCHANGED <<stream, send_queue, enqueued, workerQ, legacy_inbox, clock>>

RECURSIVE TextsOf(_)
TextsOf(S) ==
    IF S = {} THEN 0
    ELSE LET t == CHOOSE x \in S : TRUE
         IN  Len(received[t]) + TextsOf(S \ {t})

TotalTexts == TextsOf(Sessions)

\* An operation of the environment succeeds, or fails while the fault
\* budget lasts.
Outcome(ok) ==
    /\ ok \/ faults > 0
    /\ faults' = IF ok THEN faults ELSE faults - 1

(***************************************************************************)
(* Gateway session: websocket_endpoint                                     *)
(***************************************************************************)
\* username is None or not username.strip()
username_missing_untrimmed(u) == u = None \/ u = <<>>

username_missing(u) == u = None \/ strip(u) = <<>>

\* Room lookup and username check; accept only when both pass.  The request
\* comes from the given sets of variants, room ids and username parameters.
Connect(s, V, R, U) ==
    /\ pc[s] = "new"
    /\ \E v \in V, sid \in R, u \in U :
          /\ variant' = [variant EXCEPT ![s] = v]
          /\ server_id' = [server_id EXCEPT ![s] = sid]
          /\ IF sid \notin Directory
             THEN /\ closeCode' = [closeCode EXCEPT
                                      ![s] = CLOSE_POLICY_VIOLATION]
                  /\ pc' = [pc EXCEPT ![s] = "rejected"]
                  /\ username' = [username EXCEPT ![s] = u]
                  /\ UNCHANGED <<accepted, wsOpen>>
             ELSE IF username_missing(u)
             THEN /\ closeCode' = [closeCode EXCEPT
                                      ![s] = CLOSE_POLICY_VIOLATION]
                  /\ pc' = [pc EXCEPT ![s] = "rejected"]
                  /\ username' = [username EXCEPT ![s] = u]
                  /\ UNCHANGED <<accepted, wsOpen>>
             ELSE /\ username' = [username EXCEPT ![s] = strip(u)]
                  /\ accepted' = [accepted EXCEPT ![s] = TRUE]
                  /\ wsOpen' = [wsOpen EXCEPT ![s] = TRUE]
                  /\ pc' = [pc EXCEPT ![s] = "accepted"]
                  /\ UNCHANGED closeCode
    /\ UNCHANGED <<subActive, unsubCalls, send_queue, sender_task,
                   sent, history_messages, received, pubFailed, stream,
                   workerVars, table, clock, faults>>
    /\ UNCHANGED <<fetched, replayed>>
    /\ UNCHANGED <<serviceVars, storeVars, connVars, closing, enqueued, forwarded>>

Validating(s) == Connect(s, Variants, RoomIds, UsernameParams)

\* Prototype: get_nats/get_jetstream under try, subscribe, start ws_sender.
Subscribing(s) ==
    /\ pc[s] = "accepted"
    /\ variant[s] = "prototype"
    /\ \E outcome \in {"ok", "unavailable", "subscribe_raises"} :
          /\ Outcome(outcome = "ok")
          /\ CASE outcome = "unavailable" ->
                  /\ closeCode' = [closeCode EXCEPT
                                      ![s] = CLOSE_TRY_AGAIN_LATER]
                  /\ pc' = [pc EXCEPT ![s] = "closed"]
                  /\ UNCHANGED <<subActive, sender_task>>
            [] outcome = "subscribe_raises" ->
                  /\ pc' = [pc EXCEPT ![s] = "raised"]
                  /\ UNCHANGED <<closeCode, subActive, sender_task>>
            [] outcome = "ok" ->
                  /\ subActive' = [subActive EXCEPT ![s] = TRUE]
                  /\ sender_task' = [sender_task EXCEPT ![s] = "running"]
                  /\ pc' = [pc EXCEPT ![s] = "fetch"]
                  /\ UNCHANGED closeCode
    /\ UNCHANGED <<variant, server_id, username, accepted, wsOpen, unsubCalls,
                   send_queue, sent, history_messages, received,
                   pubFailed, stream, workerVars, table, clock>>
    /\ UNCHANGED <<fetched, replayed>>
    /\ UNCHANGED <<serviceVars, storeVars, connVars, closing, enqueued, forwarded>>

\* Legacy: get_nats and subscribe outside any try, start ws_sender.  An
\* exception of get_nats leaves websocket_endpoint ("escaped"), as one of
\* subscribe does ("raised").
LegacySubscribing(s) ==
    /\ pc[s] = "accepted"
    /\ variant[s] = "legacy"
    /\ \E outcome \in {"ok", "unavailable", "subscribe_raises"} :
          /\ Outcome(outcome = "ok")
          /\ CASE outcome = "unavailable" ->
                  /\ pc' = [pc EXCEPT ![s] = "escaped"]
                  /\ UNCHANGED <<subActive, sender_task>>
            [] outcome = "subscribe_raises" ->
                  /\ pc' = [pc EXCEPT ![s] = "raised"]
                  /\ UNCHANGED <<subActive, sender_task>>
            [] outcome = "ok" ->
                  /\ subActive' = [subActive EXCEPT ![s] = TRUE]
                  /\ sender_task' = [sender_task EXCEPT ![s] = "running"]
                  /\ pc' = [pc EXCEPT ![s] = "join"]
    /\ UNCHANGED <<variant, server_id, username, accepted, closeCode, wsOpen,
                   unsubCalls, send_queue, sent, history_messages,
                   received, pubFailed, stream, workerVars, table, clock>>
    /\ UNCHANGED <<fetched, replayed>>
    /\ UNCHANGED <<serviceVars, storeVars, connVars, closing, enqueued, forwarded>>

\* message_history.get_messages(server_id, limit=50); [] when it raises.
FetchHistory(s) ==
    /\ pc[s] = "fetch"
    /\ \E ok \in BOOLEAN :
          /\ Outcome(ok)
          /\ IF ok
             THEN \E h \in get_messages_pg(table, server_id[s],
                                           HISTORY_LIMIT) :
                     /\ history_messages' = [history_messages EXCEPT
                                                ![s] = h]
                     /\ fetched' = [fetched EXCEPT
                                       ![s] = [state |-> "returned",
                                               value |-> h]]
             ELSE /\ history_messages' = [history_messages EXCEPT
                                            ![s] = <<>>]
                  /\ fetched' = [fetched EXCEPT
                                    ![s] = [state |-> "raised",
                                            value |-> <<>>]]
    /\ pc' = [pc EXCEPT ![s] = "replay"]
    /\ UNCHANGED <<variant, server_id, username, accepted, closeCode, wsOpen,
                   subActive, unsubCalls, send_queue, sender_task,
                   sent, received, pubFailed, stream, workerVars, table,
                   clock>>
    /\ UNCHANGED <<serviceVars, storeVars, connVars, closing, enqueued,
                   forwarded, replayed>>

ReplayHistory_giving_up(s) ==
    /\ pc[s] = "replay"
    /\ history_messages[s] # <<>>
    /\ sent' = [sent EXCEPT ![s] = IF wsOpen[s]
                                   THEN Append(@, Head(history_messages[s]))
                                   ELSE @]
    /\ replayed' = [replayed EXCEPT
                       ![s] = Append(@, [msg |-> Head(history_messages[s]),
                                         ok |-> wsOpen[s]])]
    /\ history_messages' = [history_messages EXCEPT
                               ![s] = IF wsOpen[s] THEN Tail(@) ELSE <<>>]
    /\ UNCHANGED <<variant, pc, server_id, username, accepted, closeCode,
                   wsOpen, subActive, unsubCalls, send_queue,
                   sender_task, received, pubFailed, stream, workerVars,
                   table, clock, faults>>
    /\ UNCHANGED <<serviceVars, storeVars, connVars, closing, enqueued,
                   forwarded, fetched>>

\* One iteration of the replay loop; a failed send is swallowed.
ReplayHistory(s) ==
    /\ pc[s] = "replay"
    /\ history_messages[s] # <<>>
    /\ sent' = [sent EXCEPT ![s] = IF wsOpen[s]
                                   THEN Append(@, Head(history_messages[s]))
                                   ELSE @]
    /\ replayed' = [replayed EXCEPT
                       ![s] = Append(@, [msg |-> Head(history_messages[s]),
                                         ok |-> wsOpen[s]])]
    /\ history_messages' = [history_messages EXCEPT ![s] = Tail(@)]
    /\ UNCHANGED <<variant, pc, server_id, username, accepted, closeCode,
                   wsOpen, subActive, unsubCalls, send_queue,
                   sender_task, received, pubFailed, stream, workerVars,
                   table, clock, faults>>
    /\ UNCHANGED <<serviceVars, storeVars, connVars, closing, enqueued,
                   forwarded, fetched>>

\* nc.publish("chat.history.watch.<id>"); a failure is swallowed.  The ping
\* reaches the worker only if its chat.history.watch.* subscription is open.
NotifyWatch(s) ==
    /\ pc[s] = "replay"
    /\ history_messages[s] = <<>>
    /\ \E ok \in BOOLEAN :
          /\ Outcome(ok)
          /\ IF ok
             THEN PublishPing(s, server_id[s])
             ELSE UNCHANGED <<stream, send_queue, enqueued, workerQ, watchQ,
                              pings, legacy_inbox>>
    /\ pc' = [pc EXCEPT ![s] = "join"]
    /\ UNCHANGED <<variant, server_id, username, accepted, closeCode, wsOpen,
                   subActive, unsubCalls, sender_task, sent,
                   history_messages, received, pubFailed, wpc,
                   active_room_subs, workerSubs, saveFailed, table, clock>>
    /\ UNCHANGED <<fetched, replayed>>
    /\ UNCHANGED legacy_sub
    /\ UNCHANGED <<serviceVars, storeVars, connVars, closing, forwarded>>

PublishJoin_skipped(s) ==
    /\ pc[s] = "join"
    /\ variant[s] = "prototype"
    /\ pc' = [pc EXCEPT ![s] = "read"]
    /\ UNCHANGED <<variant, server_id, username, accepted, closeCode, wsOpen,
                   subActive, unsubCalls, send_queue, sender_task, sent,
                   history_messages, received, pubFailed, stream, workerVars,
                   table, clock, faults>>
    /\ UNCHANGED <<fetched, replayed>>
    /\ UNCHANGED <<serviceVars, storeVars, connVars, closing, enqueued, forwarded>>

\* Prototype: the join ChatMessage published through JetStream.  A publish
\* that raises leaves the try block for the finally block.
PublishJoin(s) ==
    /\ pc[s] = "join"
    /\ variant[s] = "prototype"
    /\ LET join_msg == ChatMessage(<<"system">>, server_id[s], username[s],
                                   None, <<"join">>, utc(clock))
       IN  \E ok \in BOOLEAN :
              /\ Outcome(ok)
              /\ IF ok
                 THEN /\ Publish(s, server_id[s], model_dump_json(join_msg))
                      /\ pc' = [pc EXCEPT ![s] = "read"]
                      /\ UNCHANGED pubFailed
                 ELSE /\ NoPublish
                      /\ pc' = [pc EXCEPT ![s] = "closing"]
                      /\ pubFailed' = [pubFailed EXCEPT ![s] = TRUE]
    /\ UNCHANGED <<variant, server_id, username, accepted, closeCode, wsOpen,
                   subActive, unsubCalls, sender_task, sent,
                   history_messages, received, wpc, watchQ, pings, active_room_subs,
                   workerSubs, saveFailed, table>>
    /\ UNCHANGED <<fetched, replayed>>
    /\ UNCHANGED legacy_sub
    /\ UNCHANGED <<serviceVars, storeVars, connVars, closing, forwarded>>

\* Legacy: the join dict published with nc.publish.
LegacyPublishJoin(s) ==
    /\ pc[s] = "join"
    /\ variant[s] = "legacy"
    /\ \E ok \in BOOLEAN :
          /\ Outcome(ok)
          /\ IF ok
             THEN /\ Publish(s, server_id[s],
                             legacy_join_payload(server_id[s], username[s]))
                  /\ pc' = [pc EXCEPT ![s] = "read"]
                  /\ UNCHANGED pubFailed
             ELSE /\ NoPublish
                  /\ pc' = [pc EXCEPT ![s] = "closing"]
                  /\ pubFailed' = [pubFailed EXCEPT ![s] = TRUE]
    /\ UNCHANGED <<variant, server_id, username, accepted, closeCode, wsOpen,
                   subActive, unsubCalls, sender_task, sent,
                   history_messages, received, wpc, watchQ, pings, active_room_subs,
                   workerSubs, saveFailed, table>>
    /\ UNCHANGED <<fetched, replayed>>
    /\ UNCHANGED legacy_sub
    /\ UNCHANGED <<serviceVars, storeVars, connVars, closing, forwarded>>

\* Prototype: receive_text() returns a text from T, which is wrapped into a
\* ChatMessage and published.
ReceiveFrom(s, T) ==
    /\ pc[s] = "read"
    /\ variant[s] = "prototype"
    /\ wsOpen[s]
    /\ TotalTexts < MaxTexts
    /\ \E text \in T, ok \in BOOLEAN :
          LET chat_msg == ChatMessage(<<"message">>, server_id[s],
                                      username[s], text, None, utc(clock))
          IN  /\ Outcome(ok)
              /\ received' = [received EXCEPT ![s] = Append(@, text)]
              /\ IF ok
                 THEN /\ Publish(s, server_id[s], model_dump_json(chat_msg))
                      /\ UNCHANGED <<pc, pubFailed>>
                 ELSE /\ NoPublish
                      /\ pc' = [pc EXCEPT ![s] = "closing"]
                      /\ pubFailed' = [pubFailed EXCEPT ![s] = TRUE]
    /\ UNCHANGED <<variant, server_id, username, accepted, closeCode, wsOpen,
                   subActive, unsubCalls, sender_task, sent,
                   history_messages, wpc, watchQ, pings, active_room_subs,
                   workerSubs, saveFailed, table>>
    /\ UNCHANGED <<fetched, replayed>>
    /\ UNCHANGED legacy_sub
    /\ UNCHANGED <<serviceVars, storeVars, connVars, closing, forwarded>>

Receive(s) == ReceiveFrom(s, Texts)

\* Legacy: the text goes into the dict as received.
LegacyReceiveFrom(s, T) ==
    /\ pc[s] = "read"
    /\ variant[s] = "legacy"
    /\ wsOpen[s]
    /\ TotalTexts < MaxTexts
    /\ \E text \in T, ok \in BOOLEAN :
          /\ Outcome(ok)
          /\ received' = [received EXCEPT ![s] = Append(@, text)]
          /\ IF ok
             THEN /\ Publish(s, server_id[s],
                             legacy_message_payload(server_id[s], text,
                                                    username[s]))
                  /\ UNCHANGED <<pc, pubFailed>>
             ELSE /\ NoPublish
                  /\ pc' = [pc EXCEPT ![s] = "closing"]
                  /\ pubFailed' = [pubFailed EXCEPT ![s] = TRUE]
    /\ UNCHANGED <<variant, server_id, username, accepted, closeCode, wsOpen,
                   subActive, unsubCalls, sender_task, sent,
                   history_messages, wpc, watchQ, pings, active_room_subs,
                   workerSubs, saveFailed, table>>
    /\ UNCHANGED <<fetched, replayed>>
    /\ UNCHANGED legacy_sub
    /\ UNCHANGED <<serviceVars, storeVars, connVars, closing, forwarded>>

LegacyReceive(s) == LegacyReceiveFrom(s, Texts)

\* The client goes away.
ClientDisconnect(s) ==
    /\ wsOpen[s]
    /\ pc[s] \in {"fetch", "replay", "join", "read"}
    /\ wsOpen' = [wsOpen EXCEPT ![s] = FALSE]
    /\ UNCHANGED <<variant, pc, server_id, username, accepted, closeCode,
                   subActive, unsubCalls, send_queue, sender_task,
                   sent, history_messages, received, pubFailed, stream,
                   workerVars, table, clock, faults>>
    /\ UNCHANGED <<fetched, replayed>>
    /\ UNCHANGED <<serviceVars, storeVars, connVars, closing, enqueued, forwarded>>

Disconnected_publishing_leave(s) ==
    /\ pc[s] = "read"
    /\ ~wsOpen[s]
    /\ Publish(s, server_id[s],
               IF variant[s] = "prototype"
               THEN model_dump_json(ChatMessage(<<"system">>, server_id[s],
                                                username[s], None,
                                                <<"leave">>, utc(clock)))
               ELSE legacy_leave_payload(server_id[s], username[s]))
    /\ pc' = [pc EXCEPT ![s] = "closing"]
    /\ UNCHANGED <<variant, server_id, username, accepted, closeCode, wsOpen,
                   subActive, unsubCalls, sender_task, sent,
                   history_messages, received, pubFailed, wpc, watchQ, pings,
                   active_room_subs, workerSubs, saveFailed, table, faults>>
    /\ UNCHANGED <<fetched, replayed>>
    /\ UNCHANGED legacy_sub
    /\ UNCHANGED <<serviceVars, storeVars, connVars, closing, forwarded>>

\* receive_text() raises WebSocketDisconnect: on to the finally block.
Disconnected(s) ==
    /\ pc[s] = "read"
    /\ ~wsOpen[s]
    /\ pc' = [pc EXCEPT ![s] = "closing"]
    /\ UNCHANGED <<variant, server_id, username, accepted, closeCode, wsOpen,
                   subActive, unsubCalls, send_queue, sender_task,
                   sent, history_messages, received, pubFailed, stream,
                   workerVars, table, clock, faults>>
    /\ UNCHANGED <<fetched, replayed>>
    /\ UNCHANGED <<serviceVars, storeVars, connVars, closing, enqueued, forwarded>>

\* A step of the finally block was attempted, and whether it succeeded.
Attempted(s, step, ok) ==
    closing' = [closing EXCEPT ![s] = Append(@, [step |-> step, ok |-> ok])]

PublishLeave_returning(s) ==
    /\ pc[s] = "closing"
    /\ \E ok \in BOOLEAN :
          /\ Outcome(ok)
          /\ Attempted(s, "leave", ok)
          /\ NoPublish
          /\ pc' = [pc EXCEPT ![s] = IF ok THEN "flush" ELSE "done"]
    /\ UNCHANGED <<variant, server_id, username, accepted, closeCode, wsOpen,
                   subActive, unsubCalls, sender_task, sent,
                   history_messages, received, pubFailed, wpc, watchQ, pings,
                   active_room_subs, workerSubs, saveFailed, table>>
    /\ UNCHANGED <<fetched, replayed>>
    /\ UNCHANGED legacy_sub
    /\ UNCHANGED <<serviceVars, storeVars, connVars, forwarded>>

\* finally, first try: the leave event, failures swallowed.
PublishLeave(s) ==
    /\ pc[s] = "closing"
    /\ LET payload ==
              IF variant[s] = "prototype"
              THEN model_dump_json(ChatMessage(<<"system">>, server_id[s],
                                               username[s], None,
                                               <<"leave">>, utc(clock)))
              ELSE legacy_leave_payload(server_id[s], username[s])
       IN  \E ok \in BOOLEAN :
              /\ Outcome(ok)
              /\ Attempted(s, "leave", ok)
              /\ IF ok THEN Publish(s, server_id[s], payload) ELSE NoPublish
    /\ pc' = [pc EXCEPT ![s] = "flush"]
    /\ UNCHANGED <<variant, server_id, username, accepted, closeCode, wsOpen,
                   subActive, unsubCalls, sender_task, sent,
                   history_messages, received, pubFailed, wpc, watchQ, pings,
                   active_room_subs, workerSubs, saveFailed, table>>
    /\ UNCHANGED <<fetched, replayed>>
    /\ UNCHANGED legacy_sub
    /\ UNCHANGED <<serviceVars, storeVars, connVars, forwarded>>

\* finally, second try: nc.flush(timeout=1), failures swallowed.
Flush(s) ==
    /\ pc[s] = "flush"
    /\ \E ok \in BOOLEAN : Outcome(ok) /\ Attempted(s, "flush", ok)
    /\ pc' = [pc EXCEPT ![s] = "unsubscribe"]
    /\ UNCHANGED <<variant, server_id, username, accepted, closeCode, wsOpen,
                   subActive, unsubCalls, send_queue, sender_task, sent,
                   history_messages, received, pubFailed, enqueued,
                   forwarded, stream, workerVars, table, clock>>
    /\ UNCHANGED <<fetched, replayed>>
    /\ UNCHANGED <<serviceVars, storeVars, connVars>>

Unsubscribe_not_called(s) ==
    /\ pc[s] = "unsubscribe"
    /\ Attempted(s, "unsubscribe", TRUE)
    /\ pc' = [pc EXCEPT ![s] = "cancel"]
    /\ UNCHANGED <<variant, server_id, username, accepted, closeCode, wsOpen,
                   subActive, unsubCalls, send_queue, sender_task, sent,
                   history_messages, received, pubFailed, enqueued,
                   forwarded, stream, workerVars, table, clock, faults>>
    /\ UNCHANGED <<fetched, replayed>>
    /\ UNCHANGED <<serviceVars, storeVars, connVars>>

\* finally, third try: sub.unsubscribe(), failures swallowed.  The client
\* library takes the subscription off the connection before it sends UNSUB
\* to the server, and raises earlier only when the connection is closed, so
\* the callback gets nothing more whether the call returns or raises.
Unsubscribe(s) ==
    /\ pc[s] = "unsubscribe"
    /\ \E ok \in BOOLEAN :
          /\ Outcome(ok)
          /\ Attempted(s, "unsubscribe", ok)
          /\ subActive' = [subActive EXCEPT ![s] = FALSE]
    /\ unsubCalls' = [unsubCalls EXCEPT ![s] = @ + 1]
    /\ pc' = [pc EXCEPT ![s] = "cancel"]
    /\ UNCHANGED <<variant, server_id, username, accepted, closeCode, wsOpen,
                   send_queue, sender_task, sent, history_messages, received,
                   pubFailed, enqueued, forwarded, stream, workerVars, table,
                   clock>>
    /\ UNCHANGED <<fetched, replayed>>
    /\ UNCHANGED <<serviceVars, storeVars, connVars>>

CancelSender_forgetting(s) ==
    /\ pc[s] = "cancel"
    /\ Attempted(s, "cancel", TRUE)
    /\ pc' = [pc EXCEPT ![s] = "done"]
    /\ UNCHANGED <<variant, server_id, username, accepted, closeCode, wsOpen,
                   subActive, unsubCalls, send_queue, sender_task, sent,
                   history_messages, received, pubFailed, enqueued,
                   forwarded, stream, workerVars, table, clock, faults>>
    /\ UNCHANGED <<fetched, replayed>>
    /\ UNCHANGED <<serviceVars, storeVars, connVars>>

\* finally, fourth try: sender_task.cancel().
CancelSender(s) ==
    /\ pc[s] = "cancel"
    /\ Attempted(s, "cancel", TRUE)
    /\ sender_task' = [sender_task EXCEPT
                          ![s] = IF @ = "running" THEN "cancelled" ELSE @]
    /\ pc' = [pc EXCEPT ![s] = "done"]
    /\ UNCHANGED <<variant, server_id, username, accepted, closeCode, wsOpen,
                   subActive, unsubCalls, send_queue, sent, history_messages,
                   received, pubFailed, enqueued, forwarded, stream,
                   workerVars, table, clock, faults>>
    /\ UNCHANGED <<fetched, replayed>>
    /\ UNCHANGED <<serviceVars, storeVars, connVars>>

ws_sender_newest_first(s) ==
    /\ sender_task[s] = "running"
    /\ send_queue[s] # <<>>
    /\ LET q == send_queue[s]
       IN  /\ send_queue' = [send_queue EXCEPT
                                ![s] = SubSeq(q, 1, Len(q) - 1)]
           /\ IF wsOpen[s]
              THEN /\ sent' = [sent EXCEPT ![s] = Append(@, q[Len(q)])]
                   /\ forwarded' = [forwarded EXCEPT
                                       ![s] = Append(@, q[Len(q)])]
                   /\ UNCHANGED sender_task
              ELSE /\ sender_task' = [sender_task EXCEPT ![s] = "ended"]
                   /\ UNCHANGED <<sent, forwarded>>
    /\ UNCHANGED <<variant, pc, server_id, username, accepted, closeCode,
                   wsOpen, subActive, unsubCalls, history_messages,
                   received, pubFailed, stream, workerVars, table, clock,
                   faults>>
    /\ UNCHANGED <<fetched, replayed>>
    /\ UNCHANGED <<serviceVars, storeVars, connVars, closing, enqueued>>

\* One iteration of ws_sender; a failed send ends the task.
ws_sender(s) ==
    /\ sender_task[s] = "running"
    /\ send_queue[s] # <<>>
    /\ send_queue' = [send_queue EXCEPT ![s] = Tail(@)]
    /\ IF wsOpen[s]
       THEN /\ sent' = [sent EXCEPT ![s] = Append(@, Head(send_queue[s]))]
            /\ forwarded' = [forwarded EXCEPT
                                ![s] = Append(@, Head(send_queue[s]))]
            /\ UNCHANGED sender_task
       ELSE /\ sender_task' = [sender_task EXCEPT ![s] = "ended"]
            /\ UNCHANGED <<sent, forwarded>>
    /\ UNCHANGED <<variant, pc, server_id, username, accepted, closeCode,
                   wsOpen, subActive, unsubCalls, history_messages,
                   received, pubFailed, stream, workerVars, table, clock,
                   faults>>
    /\ UNCHANGED <<fetched, replayed>>
    /\ UNCHANGED <<serviceVars, storeVars, connVars, closing, enqueued>>

(***************************************************************************)
(* History worker: run_service (chatroom_prototype)                        *)
(***************************************************************************)
\* What a subject can carry besides the JSON text of an object: bytes that
\* are not UTF-8, text that is not JSON, and JSON that is a list, a number
\* or a string.
NotUtf8 == [wire |-> "not_utf8"]
NotJson == [wire |-> "not_json"]
JsonList == [wire |-> "list"]
JsonNumber == [wire |-> "number"]
JsonString == [wire |-> "string"]

Wire(payload) == IF "wire" \in DOMAIN payload THEN payload.wire ELSE "object"

\* msg.data.decode("utf-8") and json.loads(payload) both return
decodable(payload) == Wire(payload) \notin {"not_utf8", "not_json"}

\* the value json.loads returned is a dict, the only one with a get method
has_get(data) == Wire(data) = "object"

\* the decimal literals of the integers a serverId of the model can be
IntLiterals == { ToString(i) : i \in RoomIds }

\* isinstance(v, int)
isinstance_int(v) == ToString(v) \in IntLiterals

\* isinstance(data.get("serverId"), int)
numeric_serverId(data) ==
    /\ "serverId" \in DOMAIN data
    /\ isinstance_int(data.serverId)

\* Store initialised, bus acquired, chat.history.watch.* subscribed.
WorkerStart ==
    /\ wpc = "init"
    /\ wpc' = "running"
    /\ UNCHANGED <<sessVars, stream, watchQ, pings, active_room_subs,
                   workerSubs, workerQ, saveFailed, table, clock, faults>>
    /\ UNCHANGED <<fetched, replayed>>
    /\ UNCHANGED <<legacy_sub, legacy_inbox>>
    /\ UNCHANGED <<serviceVars, storeVars, connVars>>

\* server_id in active_room_subs
already_watching_never(sid) == FALSE

already_watching(sid) == sid \in active_room_subs

watch_handler_recording_failed ==
    /\ wpc = "running"
    /\ watchQ # <<>>
    /\ LET suffix == Head(watchQ)
       IN  IF suffix \notin IntLiterals
           THEN UNCHANGED <<active_room_subs, workerSubs, faults>>
           ELSE LET sid == CHOOSE n \in RoomIds : ToString(n) = suffix
                IN  IF already_watching(sid)
                    THEN UNCHANGED <<active_room_subs, workerSubs, faults>>
                    ELSE \E ok \in BOOLEAN :
                            /\ Outcome(ok)
                            /\ IF ok
                               THEN /\ workerSubs' = [workerSubs EXCEPT
                                                         ![sid] = @ + 1]
                                    /\ active_room_subs' =
                                          active_room_subs \cup {sid}
                               ELSE /\ active_room_subs' =
                                          active_room_subs \cup {sid}
                                    /\ UNCHANGED workerSubs
    /\ watchQ' = Tail(watchQ)
    /\ UNCHANGED <<sessVars, stream, wpc, pings, workerQ, saveFailed, table,
                   clock>>
    /\ UNCHANGED <<fetched, replayed>>
    /\ UNCHANGED <<legacy_sub, legacy_inbox>>
    /\ UNCHANGED <<serviceVars, storeVars, connVars>>

\* A discovery ping: int() of the last subject token, which raises for a
\* token that is no integer, and the ping is dropped; subscribe to the room
\* unless it is in the mapping; a subscribe that raises leaves the mapping
\* as it was.
watch_handler ==
    /\ wpc = "running"
    /\ watchQ # <<>>
    /\ LET suffix == Head(watchQ)
       IN  IF suffix \notin IntLiterals
           THEN UNCHANGED <<active_room_subs, workerSubs, faults>>
           ELSE LET sid == CHOOSE n \in RoomIds : ToString(n) = suffix
                IN  IF already_watching(sid)
                    THEN UNCHANGED <<active_room_subs, workerSubs, faults>>
                    ELSE \E ok \in BOOLEAN :
                            /\ Outcome(ok)
                            /\ IF ok
                               THEN /\ workerSubs' = [workerSubs EXCEPT
                                                         ![sid] = @ + 1]
                                    /\ active_room_subs' =
                                          active_room_subs \cup {sid}
                               ELSE UNCHANGED <<active_room_subs, workerSubs>>
    /\ watchQ' = Tail(watchQ)
    /\ UNCHANGED <<sessVars, stream, wpc, pings, workerQ, saveFailed, table,
                   clock>>
    /\ UNCHANGED <<fetched, replayed>>
    /\ UNCHANGED <<legacy_sub, legacy_inbox>>
    /\ UNCHANGED <<serviceVars, storeVars, connVars>>

handler_unsubscribing(sid) ==
    /\ wpc = "running"
    /\ workerQ[sid] # <<>>
    /\ LET data == Head(workerQ[sid])
       IN  IF ~decodable(data)
           THEN UNCHANGED <<table, clock, saveFailed, faults, handlerRaised>>
           ELSE IF ~has_get(data)
           THEN /\ handlerRaised' = TRUE
                /\ UNCHANGED <<table, clock, saveFailed, faults>>
           ELSE IF ~numeric_serverId(data)
           THEN UNCHANGED <<table, clock, saveFailed, faults, handlerRaised>>
           ELSE \E ok \in BOOLEAN :
                   /\ Outcome(ok)
                   /\ IF ok
                      THEN /\ table' = save_message_pg(table, data.serverId,
                                                       data, clock)
                           /\ clock' = clock + 1
                           /\ UNCHANGED saveFailed
                      ELSE /\ saveFailed' = TRUE
                           /\ UNCHANGED <<table, clock>>
                   /\ UNCHANGED handlerRaised
    /\ workerQ' = [workerQ EXCEPT ![sid] = Tail(@)]
    /\ IF saveFailed' # saveFailed
       THEN /\ active_room_subs' = active_room_subs \ {sid}
            /\ workerSubs' = [workerSubs EXCEPT ![sid] = 0]
       ELSE UNCHANGED <<active_room_subs, workerSubs>>
    /\ UNCHANGED <<sessVars, stream, wpc, watchQ, pings>>
    /\ UNCHANGED <<legacy_sub, legacy_inbox>>
    /\ UNCHANGED <<storeVars, connVars, attempt, sleeps, storeUp, missed,
                   shutdown>>

\* The persistence handler on one payload of chat.<sid>.  Payloads that do
\* not decode are skipped; data.get is called on whatever json.loads
\* returned, outside any try, so a value that is not a dict raises
\* AttributeError out of the handler; a save that raises is caught.
handler(sid) ==
    /\ wpc = "running"
    /\ workerQ[sid] # <<>>
    /\ LET data == Head(workerQ[sid])
       IN  IF ~decodable(data)
           THEN UNCHANGED <<table, clock, saveFailed, faults, handlerRaised>>
           ELSE IF ~has_get(data)
           THEN /\ handlerRaised' = TRUE
                /\ UNCHANGED <<table, clock, saveFailed, faults>>
           ELSE IF ~numeric_serverId(data)
           THEN UNCHANGED <<table, clock, saveFailed, faults, handlerRaised>>
           ELSE \E ok \in BOOLEAN :
                   /\ Outcome(ok)
                   /\ IF ok
                      THEN /\ table' = save_message_pg(table, data.serverId,
                                                       data, clock)
                           /\ clock' = clock + 1
                           /\ UNCHANGED saveFailed
                      ELSE /\ saveFailed' = TRUE
                           /\ UNCHANGED <<table, clock>>
                   /\ UNCHANGED handlerRaised
    /\ workerQ' = [workerQ EXCEPT ![sid] = Tail(@)]
    /\ UNCHANGED <<sessVars, stream, wpc, watchQ, pings, active_room_subs,
                   workerSubs>>
    /\ UNCHANGED <<legacy_sub, legacy_inbox>>
    /\ UNCHANGED <<storeVars, connVars, attempt, sleeps, storeUp, missed,
                   shutdown>>

(***************************************************************************)
(* One connection and the worker.  The table starts empty or with what an  *)
(* earlier legacy connection to a watched room left in it.                 *)
(***************************************************************************)
Solo == {"s1"}

EarlierRows ==
    save_message_pg(
        save_message_pg(<<>>, 1, legacy_join_payload(1, <<"z">>), -2),
        1, legacy_message_payload(1, <<"o", "k">>, <<"z">>), -1)

InitialTables == {<<>>, EarlierRows}

\* get_messages(server_id, limit=50) was not called
NotFetched == [state |-> "none", value |-> <<>>]

\* No connection exists, nothing is published, the worker is not started.
InitGateway ==
    /\ variant = [s \in Sessions |-> "none"]
    /\ pc = [s \in Sessions |-> "new"]
    /\ server_id = [s \in Sessions |-> 0]
    /\ username = [s \in Sessions |-> None]
    /\ accepted = [s \in Sessions |-> FALSE]
    /\ closeCode = [s \in Sessions |-> 0]
    /\ wsOpen = [s \in Sessions |-> FALSE]
    /\ subActive = [s \in Sessions |-> FALSE]
    /\ unsubCalls = [s \in Sessions |-> 0]
    /\ send_queue = [s \in Sessions |-> <<>>]
    /\ sender_task = [s \in Sessions |-> "none"]
    /\ sent = [s \in Sessions |-> <<>>]
    /\ history_messages = [s \in Sessions |-> <<>>]
    /\ received = [s \in Sessions |-> <<>>]
    /\ pubFailed = [s \in Sessions |-> FALSE]
    /\ closing = [s \in Sessions |-> <<>>]
    /\ enqueued = [s \in Sessions |-> <<>>]
    /\ forwarded = [s \in Sessions |-> <<>>]
    /\ fetched = [s \in Sessions |-> NotFetched]
    /\ replayed = [s \in Sessions |-> <<>>]
    /\ stream = <<>>
    /\ wpc = "init"
    /\ watchQ = <<>>
    /\ pings = [r \in Directory \cup {0} |-> 0]
    /\ active_room_subs = {}
    /\ workerSubs = [r \in Directory |-> 0]
    /\ workerQ = [r \in Directory |-> <<>>]
    /\ saveFailed = FALSE
    /\ legacy_sub = FALSE
    /\ legacy_inbox = <<>>
    /\ clock = 1

\* No call was made on the store object.
NoCall == [op |-> "none"]

InitStore(B) ==
    /\ backend \in B
    /\ files = [r \in Directory |-> <<>>]
    /\ saved = <<>>
    /\ last_call = NoCall
    /\ pool = 0
    /\ pools = 0
    /\ schema_done = FALSE
    /\ ppc = [c \in Callers |-> [op |-> "none", at |-> "idle", n |-> 0]]
    /\ queried = {}

\* run_service has not been entered; the database is up or down.
InitService(U) ==
    /\ attempt = 0
    /\ sleeps = <<>>
    /\ storeUp \in U
    /\ missed = {}
    /\ handlerRaised = FALSE
    /\ shutdown = <<>>

\* a caller that holds no JetStream context
NoContext == [ctx |-> 0, nc |-> 0, pub |-> "none"]

\* _nats_connection = None, _js = None
InitConn ==
    /\ _nats_connection = 0
    /\ connections = <<>>
    /\ cpc = [c \in Callers |-> "idle"]
    /\ calls = [c \in Callers |-> 0]
    /\ returned = [c \in Callers |-> 0]
    /\ _js = 0
    /\ js = [c \in Callers |-> NoContext]

Init ==
    /\ InitGateway
    /\ table \in InitialTables
    /\ faults = MaxFaults
    /\ InitStore({"postgres"})
    /\ InitConn
    /\ InitService({TRUE})

Next ==
    \/ \E s \in Solo : Validating(s)
    \/ \E s \in Solo : Subscribing(s)
    \/ \E s \in Solo : LegacySubscribing(s)
    \/ \E s \in Solo : FetchHistory(s)
    \/ \E s \in Solo : ReplayHistory(s)
    \/ \E s \in Solo : NotifyWatch(s)
    \/ \E s \in Solo : PublishJoin(s)
    \/ \E s \in Solo : LegacyPublishJoin(s)
    \/ \E s \in Solo : Receive(s)
    \/ \E s \in Solo : LegacyReceive(s)
    \/ \E s \in Solo : ClientDisconnect(s)
    \/ \E s \in Solo : Disconnected(s)
    \/ \E s \in Solo : PublishLeave(s)
    \/ \E s \in Solo : Flush(s)
    \/ \E s \in Solo : Unsubscribe(s)
    \/ \E s \in Solo : CancelSender(s)
    \/ \E s \in Solo : ws_sender(s)
    \/ WorkerStart
    \/ watch_handler
    \/ \E sid \in Directory : handler(sid)

vars == <<gatewayVars, storeVars, connVars, serviceVars>>

Spec == Init /\ [][Next]_vars

(***************************************************************************)
(* Claims about one connection                                             *)
(***************************************************************************)
AllSpace(x) == \A i \in DOMAIN x : x[i] \in Whitespace

\* t is raw without its surrounding whitespace, None when nothing is left
IsTrimOf(raw, t) ==
    IF AllSpace(raw) THEN t = None
    ELSE \E i, j \in 1..Len(raw) :
            /\ i <= j
            /\ raw[i] \notin Whitespace
            /\ raw[j] \notin Whitespace
            /\ AllSpace(SubSeq(raw, 1, i - 1))
            /\ AllSpace(SubSeq(raw, j + 1, Len(raw)))
            /\ t = SubSeq(raw, i, j)

IsJoin(e) ==
    Get(e.data, "type") = <<"system">> /\ Get(e.data, "event") = <<"join">>
IsLeave(e) ==
    Get(e.data, "type") = <<"system">> /\ Get(e.data, "event") = <<"leave">>
IsMessage(e) == Get(e.data, "type") = <<"message">>

MessagesOf(s) == SelectSeq(stream, LAMBDA e : e.by = s /\ IsMessage(e))

InvalidRequest(s) ==
    \/ server_id[s] \notin Directory
    \/ username[s] = None
    \/ AllSpace(username[s])

\* C1: a request whose room is not in the directory, or whose username is
\* missing or blank, is closed with 1008 and never accepted; the session
\* subscribes nothing, starts no sender, publishes nothing on the bus (no
\* join, leave, message or ping reaches stream, watchQ or the worker) and
\* fetches and replays no history.
C1_InvalidRequestRejected ==
    \A s \in Solo :
        (pc[s] # "new" /\ InvalidRequest(s)) =>
            /\ pc[s] = "rejected"
            /\ closeCode[s] = CLOSE_POLICY_VIOLATION
            /\ ~accepted[s]
            /\ ~subActive[s]
            /\ sender_task[s] = "none"
            /\ stream = <<>>
            /\ watchQ = <<>>
            /\ \A r \in Directory : pings[r] = 0 /\ workerQ[r] = <<>>
            /\ history_messages[s] = <<>>
            /\ sent[s] = <<>>
            /\ received[s] = <<>>
            /\ send_queue[s] = <<>>
            /\ table \in InitialTables

C1_Witness ==
    /\ pc["s1"] = "rejected"
    /\ server_id["s1"] \in Directory
    /\ username["s1"] = <<" ">>
    /\ closeCode["s1"] = CLOSE_POLICY_VIOLATION

\* The steps of a session from accept to the read loop; each is an awaited
\* call that returns or raises, so an accepted session is not left waiting.
SessionStep(s) ==
    \/ Subscribing(s)
    \/ LegacySubscribing(s)
    \/ FetchHistory(s)
    \/ ReplayHistory(s)
    \/ NotifyWatch(s)
    \/ PublishJoin(s)
    \/ LegacyPublishJoin(s)

\* The steps of the finally block: each try block ends, by returning or by
\* raising, and the next one is entered.
ClosingStep(s) ==
    \/ PublishLeave(s)
    \/ Flush(s)
    \/ Unsubscribe(s)
    \/ CancelSender(s)

SpecLive ==
    /\ Init
    /\ [][Next]_vars
    /\ WF_vars(\E s \in Solo : SessionStep(s))
    /\ WF_vars(\E s \in Solo : ClosingStep(s))

\* the session's join is on chat.<room> before any of its message events,
\* before any text is taken from the client, and whenever it is in or past
\* the read loop with no publish failed
JoinedFirst ==
    \A s \in Solo :
        LET JoinAt(j) ==
                /\ stream[j].by = s
                /\ IsJoin(stream[j])
                /\ stream[j].subject = server_id[s]
                /\ Get(stream[j].data, "username") = username[s]
        IN  /\ \A i \in DOMAIN stream :
                  (stream[i].by = s /\ IsMessage(stream[i])) =>
                      \E j \in 1..(i - 1) : JoinAt(j)
            /\ received[s] # <<>> => \E j \in DOMAIN stream : JoinAt(j)
            /\ pc[s] = "read" => \E j \in DOMAIN stream : JoinAt(j)
            /\ (pc[s] \in {"closing", "flush", "unsubscribe", "cancel", "done"}
                /\ ~pubFailed[s])
                  => \E j \in DOMAIN stream : JoinAt(j)
            /\ (accepted[s] /\ faults = MaxFaults)
                  => pc[s] \notin {"closed", "escaped", "raised"}

\* C2: a session with a valid room and username is accepted and, unless a
\* bus or store operation fails, reaches the read loop (Active); and in
\* every session the join event is published on chat.<room> before any
\* message event of that session.
C2_JoinBeforeMessages ==
    /\ []JoinedFirst
    /\ \A s \in Solo :
          pc[s] = "accepted" ~> (pc[s] = "read" \/ faults < MaxFaults)

C2_Witness ==
    /\ variant["s1"] = "prototype"
    /\ pc["s1"] = "read"
    /\ Len(stream) = 3
    /\ IsJoin(stream[1])
    /\ IsMessage(stream[2])
    /\ IsMessage(stream[3])

\* C3: a prototype session that received N texts, none of its publishes
\* having failed, has published exactly N message events on chat.<room>,
\* the i-th carrying the room id, the trimmed username and the i-th text
\* without its surrounding whitespace (absent when nothing is left); a
\* failed publish ends the loop, so at most the last text is unpublished.
C3_MessagesMatchTexts ==
    \A s \in Solo :
        variant[s] = "prototype" =>
            LET m == MessagesOf(s)
            IN  /\ Len(m) <= Len(received[s])
                /\ ~pubFailed[s] => Len(m) = Len(received[s])
                /\ Len(m) >= Len(received[s]) - 1
                /\ \A i \in 1..Len(m) :
                      /\ m[i].subject = server_id[s]
                      /\ m[i].data.server_id = server_id[s]
                      /\ m[i].data.username = username[s]
                      /\ username[s] # <<>>
                      /\ Head(username[s]) \notin Whitespace
                      /\ username[s][Len(username[s])] \notin Whitespace
                      /\ m[i].data.event = None
                      /\ IsTrimOf(received[s][i], m[i].data.text)

C3_Witness ==
    /\ variant["s1"] = "prototype"
    /\ ~pubFailed["s1"]
    /\ received["s1"] = << <<" ", "h", " ">>, <<" ">> >>
    /\ Len(MessagesOf("s1")) = 2
    /\ username["s1"] = <<"b">>

ClosingSteps == <<"leave", "flush", "unsubscribe", "cancel">>

\* the session went through the try block (it was subscribed and joining
\* or Active) and has left it
InFinally(s) == pc[s] \in {"closing", "flush", "unsubscribe", "cancel", "done"}

\* C12: however the try block ended, the finally block attempts leave,
\* flush, unsubscribe and cancel in that order, the next step whether or
\* not the one before failed, and ends in "done" with all four attempted;
\* sub.unsubscribe() is called once and the forwarder no longer runs.
C12_ClosingRunsAllSteps ==
    \A s \in Solo :
        /\ Len(closing[s]) <= Len(ClosingSteps)
        /\ \A i \in DOMAIN closing[s] : closing[s][i].step = ClosingSteps[i]
        /\ closing[s] # <<>> => InFinally(s)
        /\ InFinally(s) =>
              Len(closing[s]) =
                 CASE pc[s] = "closing" -> 0
                   [] pc[s] = "flush" -> 1
                   [] pc[s] = "unsubscribe" -> 2
                   [] pc[s] = "cancel" -> 3
                   [] pc[s] = "done" -> 4
        /\ pc[s] = "done" =>
              /\ unsubCalls[s] = 1
              /\ sender_task[s] \in {"cancelled", "ended"}

C12_Witness ==
    /\ pc["s1"] = "done"
    /\ Len(closing["s1"]) = 4
    /\ ~closing["s1"][2].ok
    /\ closing["s1"][3].ok
    /\ received["s1"] # <<>>

\* the forwarder task is not left running
ForwarderStopped(s) == sender_task[s] \in {"cancelled", "ended"}

\* C13: once the reader has ended and the finally block is entered, the
\* forwarder is eventually cancelled (or has ended by itself), whichever
\* closing step fails; a session that is done has no running forwarder,
\* and one that never reached the try block never started one.
C13_ForwarderCancelled ==
    /\ [](\A s \in Solo :
            /\ pc[s] = "done" => ForwarderStopped(s)
            /\ pc[s] \in {"rejected", "closed", "escaped", "raised"}
                  => sender_task[s] = "none")
    /\ \A s \in Solo : pc[s] = "closing" ~> ForwarderStopped(s)

C13_Witness ==
    /\ pc["s1"] = "done"
    /\ sender_task["s1"] = "cancelled"
    /\ ~closing["s1"][3].ok
    /\ send_queue["s1"] # <<>>

IsPrefix(p, q) == Len(p) <= Len(q) /\ SubSeq(q, 1, Len(p)) = p

\* C14: what the forwarder wrote to the client is a prefix of what the
\* subscription handler enqueued, payload for payload; while the forwarder
\* runs, the written payloads followed by the queued ones are exactly the
\* enqueued ones; every enqueued payload is one published on the session's
\* room; and a forwarder that ended on a failed write has dropped the
\* payload it was writing and left the endpoint where it was.
C14_ForwarderOrder ==
    \A s \in Solo :
        /\ IsPrefix(forwarded[s], enqueued[s])
        /\ sender_task[s] = "running" =>
              forwarded[s] \o send_queue[s] = enqueued[s]
        /\ \A i \in DOMAIN enqueued[s] : \E j \in DOMAIN stream :
              /\ stream[j].subject = server_id[s]
              /\ stream[j].data = enqueued[s][i]
        /\ sender_task[s] = "ended" =>
              /\ ~wsOpen[s]
              /\ Len(forwarded[s]) < Len(enqueued[s])
              /\ pc[s] \notin {"raised", "escaped"}

C14_Witness ==
    /\ sender_task["s1"] = "ended"
    /\ Len(forwarded["s1"]) = 3
    /\ Len(enqueued["s1"]) = 4

\* the bus connection could not be acquired in Subscribing
AcquisitionFailed(s) == pc[s] \in {"closed", "escaped"}

\* C11: a session whose bus acquisition failed has closed the client with
\* 1013 and returned ("closed"), the exception not leaving the endpoint; it
\* has no subscription, no forwarder, and has published and read nothing.
C11_BusUnavailable ==
    \A s \in Solo :
        AcquisitionFailed(s) =>
            /\ pc[s] = "closed"
            /\ closeCode[s] = CLOSE_TRY_AGAIN_LATER
            /\ ~subActive[s]
            /\ sender_task[s] = "none"
            /\ \A i \in DOMAIN stream : stream[i].by # s
            /\ received[s] = <<>>

\* The worker's row for a payload published on chat.<subject>
PersistedEvent(e) ==
    \E k \in DOMAIN table :
        table[k].server_id = e.subject /\ table[k].raw_data = e.data

\* The worker runs and has nothing left to handle.
WorkerIdle ==
    /\ wpc = "running"
    /\ watchQ = <<>>
    /\ \A r \in Directory : workerQ[r] = <<>>

\* C4: with the worker running when the session's discovery ping was
\* published, no bus or store operation having failed, once the worker has
\* handled everything delivered to it every event the session published on
\* chat.<R> (join, messages, leave) has a row in the store.
C4_NoEventMissed ==
    \A s \in Solo :
        (/\ variant[s] = "prototype"
         /\ accepted[s]
         /\ faults = MaxFaults
         /\ pings[server_id[s]] > 0
         /\ WorkerIdle)
        => \A i \in DOMAIN stream :
              stream[i].by = s => PersistedEvent(stream[i])

(***************************************************************************)
(* Two clients that stay connected, with valid requests and no injected    *)
(* failure, and the worker: the second client arrives once the first has   *)
(* joined and sent a text                                                  *)
(***************************************************************************)
RoomUsers == [s1 |-> {<<"a">>}, s2 |-> {<<" ", "b", " ">>}]

Arrives(s) ==
    /\ s = "s2" => received["s1"] # <<>>
    /\ Connect(s, Variants, Directory, RoomUsers[s])

InitRoom ==
    /\ InitGateway
    /\ table \in InitialTables
    /\ faults = 0
    /\ InitStore({"postgres"})
    /\ InitConn
    /\ InitService({TRUE})

NextRoom ==
    \/ \E s \in Sessions : Arrives(s)
    \/ \E s \in Sessions : Subscribing(s)
    \/ \E s \in Sessions : LegacySubscribing(s)
    \/ \E s \in Sessions : FetchHistory(s)
    \/ \E s \in Sessions : ReplayHistory(s)
    \/ \E s \in Sessions : NotifyWatch(s)
    \/ \E s \in Sessions : PublishJoin(s)
    \/ \E s \in Sessions : LegacyPublishJoin(s)
    \/ \E s \in Sessions : Receive(s)
    \/ \E s \in Sessions : LegacyReceive(s)
    \/ \E s \in Sessions : ws_sender(s)
    \/ WorkerStart
    \/ watch_handler
    \/ \E sid \in Directory : handler(sid)

SpecRoom == InitRoom /\ [][NextRoom]_vars

(***************************************************************************)
(* Claims about two clients and the worker                                 *)
(***************************************************************************)
\* C10: both clients served by the prototype gateway in room 1, the worker
\* running when each joined; alice joined and sent a text, then bob joined
\* and sent a text, and the worker and bob's forwarder have caught up.  Then
\* the rows of room 1 hold join(alice), message(alice), join(bob),
\* message(bob) in that order, and bob was sent alice's join.
C10_AliceThenBob ==
    (/\ \A s \in Sessions : variant[s] = "prototype" /\ server_id[s] = 1
     /\ pings[1] = 2
     /\ Len(stream) = 4
     /\ stream[1].by = "s1" /\ IsJoin(stream[1])
     /\ stream[2].by = "s1" /\ IsMessage(stream[2])
     /\ stream[3].by = "s2" /\ IsJoin(stream[3])
     /\ stream[4].by = "s2" /\ IsMessage(stream[4])
     /\ WorkerIdle
     /\ send_queue["s2"] = <<>>)
    => /\ \E i, j, k, l \in DOMAIN table :
             /\ i < j /\ j < k /\ k < l
             /\ table[i].server_id = 1 /\ table[i].raw_data = stream[1].data
             /\ table[j].server_id = 1 /\ table[j].raw_data = stream[2].data
             /\ table[k].server_id = 1 /\ table[k].raw_data = stream[3].data
             /\ table[l].server_id = 1 /\ table[l].raw_data = stream[4].data
       /\ \E n \in DOMAIN sent["s2"] : sent["s2"][n] = stream[1].data

(***************************************************************************)
(* The worker alone, with any number of gateway sessions around it: pings  *)
(* for any room in any number, and payloads of both gateways on the room   *)
(* subjects                                                                *)
(***************************************************************************)
\* nc.publish("chat.history.watch.<r>") of some session, delivered to the
\* worker's discovery subscription
PingFrom(r) ==
    /\ wpc = "running"
    /\ pings[1] + pings[2] < MaxPings
    /\ watchQ' = Append(watchQ, ToString(r))
    /\ pings' = [pings EXCEPT ![r] = @ + 1]
    /\ UNCHANGED <<sessVars, stream, wpc, active_room_subs, workerSubs,
                   workerQ, saveFailed, table, clock, faults>>
    /\ UNCHANGED <<fetched, replayed>>
    /\ UNCHANGED <<legacy_sub, legacy_inbox>>
    /\ UNCHANGED <<serviceVars, storeVars, connVars>>

\* what the two gateways publish for a join in room r
JoinPayloads(r) ==
    { model_dump_json(ChatMessage(<<"system">>, r, <<"a">>, None, <<"join">>,
                                  utc(clock))),
      legacy_join_payload(r, <<"a">>) }

\* a session's publish on chat.<r>
PublishedOn(r) ==
    /\ Len(stream) < MaxEvents
    /\ \E payload \in JoinPayloads(r) : Publish("s1", r, payload)
    /\ UNCHANGED <<variant, pc, server_id, username, accepted, closeCode,
                   wsOpen, subActive, unsubCalls, sender_task, sent,
                   history_messages, received, pubFailed, wpc, watchQ, pings,
                   active_room_subs, workerSubs, saveFailed, table, faults>>
    /\ UNCHANGED <<fetched, replayed>>
    /\ UNCHANGED legacy_sub
    /\ UNCHANGED <<serviceVars, storeVars, connVars, closing, forwarded>>

\* what else a client of the bus can publish on chat.<r>
OddPayloads(r) ==
    { NotUtf8, NotJson, JsonList, JsonNumber, JsonString,
      [type |-> <<"message">>, serverId |-> <<"1">>] }

\* any client's publish on chat.<r>
PublishedOdd(r) ==
    /\ Len(stream) < MaxEvents
    /\ \E payload \in OddPayloads(r) : Publish("s1", r, payload)
    /\ UNCHANGED <<variant, pc, server_id, username, accepted, closeCode,
                   wsOpen, subActive, unsubCalls, sender_task, sent,
                   history_messages, received, pubFailed, wpc, watchQ, pings,
                   active_room_subs, workerSubs, saveFailed, table, faults>>
    /\ UNCHANGED <<fetched, replayed>>
    /\ UNCHANGED legacy_sub
    /\ UNCHANGED <<serviceVars, storeVars, connVars, closing, forwarded>>

InitWorker ==
    /\ InitGateway
    /\ table = <<>>
    /\ faults = MaxFaults
    /\ InitStore({"postgres"})
    /\ InitConn
    /\ InitService({TRUE})

NextWorker ==
    \/ WorkerStart
    \/ \E r \in Directory : PingFrom(r)
    \/ \E r \in Directory : PublishedOn(r)
    \/ watch_handler
    \/ \E sid \in Directory : handler(sid)

SpecWorker == InitWorker /\ [][NextWorker]_vars

Occurrences(p) == Cardinality({ i \in DOMAIN stream : stream[i].data = p })

Rows(p) == Cardinality({ k \in DOMAIN table : table[k].raw_data = p })

PingPending(r) == \E i \in DOMAIN watchQ : watchQ[i] = ToString(r)

\* C5: whatever pings were delivered (the same room two or three times),
\* the worker holds one chat.<R> subscription for each room in its mapping
\* and none for the others; a room whose pings were all handled, no
\* subscribe having failed, has exactly one; so a payload on chat.<R> is
\* delivered to the worker at most once per publish and has at most as
\* many rows in the store as it was published.
C5_OneSubscriptionPerRoom ==
    /\ \A r \in Directory :
          /\ workerSubs[r] = IF r \in active_room_subs THEN 1 ELSE 0
          /\ (pings[r] > 0 /\ ~PingPending(r) /\ faults = MaxFaults)
                => workerSubs[r] = 1
          /\ pings[r] = 0 => workerSubs[r] = 0
          /\ Len(workerQ[r]) <=
                Cardinality({ i \in DOMAIN stream : stream[i].subject = r })
    /\ \A k \in DOMAIN table :
          Rows(table[k].raw_data) <= Occurrences(table[k].raw_data)

C5_Witness ==
    /\ pings[1] >= 2
    /\ watchQ = <<>>
    /\ workerSubs[1] = 1
    /\ workerQ[1] = <<>>
    /\ \E k \in DOMAIN table, i \in DOMAIN stream :
          /\ stream[i].subject = 1
          /\ table[k].server_id = 1
          /\ table[k].raw_data = stream[i].data

(***************************************************************************)
(* File-backed MessageHistory (history_io.py, message_history.py): one     *)
(* JSON object per line of server_<id>_history.jsonl                       *)
(***************************************************************************)
\* the dict with a timestamp key set, as message_data["timestamp"] = ...
WithTimestamp(message_data, ts) == ("timestamp" :> ts) @@ message_data

save_message(f, sid, message_data, now) ==
    [f EXCEPT ![sid] =
        Append(@, IF "timestamp" \notin DOMAIN message_data
                  THEN WithTimestamp(message_data, utc(now))
                  ELSE message_data)]

\* a line of a history file that holds only whitespace
BlankLine == [wire |-> "blank"]

parses_or_raises(line) == Wire(line) # "blank"

\* line.strip() is not empty and json.loads(line) returns
parses(line) == Wire(line) \notin {"blank", "not_json"}

\* The lines that parse, in file order; then
\* if limit and len(messages) > limit: messages = messages[-limit:]
get_messages(f, sid, limit) ==
    LET messages == SelectSeq(f[sid], parses)
    IN  IF limit # 0 /\ Len(messages) > limit
        THEN SubSeq(messages, Len(messages) - limit + 1, Len(messages))
        ELSE messages

\* unlink the file; True when it existed
clear_history(f, sid) == [f EXCEPT ![sid] = <<>>]

clear_history_pg_every_room(tab, sid) == <<>>

\* the number of lines with line.strip() not empty
get_message_count(f, sid) ==
    Len(SelectSeq(f[sid], LAMBDA line : Wire(line) # "blank"))

get_message_count_pg_every_room(tab, sid) == Len(tab)

\* SELECT COUNT(*) FROM messages WHERE server_id = $1
get_message_count_pg(tab, sid) ==
    Len(SelectSeq(tab, LAMBDA row : row.server_id = sid))

\* DELETE FROM messages WHERE server_id = $1
clear_history_pg(tab, sid) == SelectSeq(tab, LAMBDA row : row.server_id # sid)

(***************************************************************************)
(* A store object under any sequence of calls                              *)
(***************************************************************************)
StoreEvents ==
    { [type |-> <<"message">>, username |-> <<"a">>, text |-> <<"h">>],
      [type |-> <<"system">>, event |-> <<"join">>, username |-> <<"b">>],
      [type |-> <<"message">>, username |-> <<"c">>, text |-> <<"o">>,
       timestamp |-> [inst |-> 0, offset |-> 2, valid |-> TRUE]],
      [type |-> <<"message">>, username |-> <<"d">>, text |-> <<"k">>,
       timestamp |-> [inst |-> 0, offset |-> 0, valid |-> FALSE]] }

Limits == (0..MaxSaves) \cup {DEFAULT_LIMIT}

SaveMessage(sid, message_data) ==
    /\ clock <= MaxSaves
    /\ IF backend = "file"
       THEN /\ files' = save_message(files, sid, message_data, clock)
            /\ UNCHANGED table
       ELSE /\ table' = save_message_pg(table, sid, message_data, clock)
            /\ UNCHANGED files
    /\ saved' = Append(saved, [server_id |-> sid,
                               message_data |-> message_data, at |-> clock])
    /\ last_call' = [op |-> "save_message", server_id |-> sid]
    /\ clock' = clock + 1
    /\ UNCHANGED <<serviceVars, sessVars, stream, workerVars, faults, backend, poolVars,
                   connVars>>

GetMessages(sid, limit) ==
    /\ \E value \in IF backend = "file"
                     THEN {get_messages(files, sid, limit)}
                     ELSE get_messages_pg(table, sid, limit) :
          last_call' = [op |-> "get_messages", server_id |-> sid,
                        limit |-> limit, value |-> value]
    /\ UNCHANGED <<sessVars, stream, workerVars, table, clock, faults,
                   backend, poolVars, files, saved, connVars,
                   serviceVars>>

ClearHistory(sid) ==
    /\ IF backend = "file"
       THEN /\ files' = clear_history(files, sid)
            /\ last_call' = [op |-> "clear_history", server_id |-> sid,
                             value |-> files[sid] # <<>>]
            /\ UNCHANGED table
       ELSE /\ table' = clear_history_pg(table, sid)
            /\ last_call' = [op |-> "clear_history", server_id |-> sid,
                             value |-> None]
            /\ UNCHANGED files
    /\ saved' = SelectSeq(saved, LAMBDA c : c.server_id # sid)
    /\ UNCHANGED <<sessVars, stream, workerVars, clock, faults, backend, poolVars,
                   connVars, serviceVars>>

GetMessageCount(sid) ==
    /\ last_call' = [op |-> "get_message_count", server_id |-> sid,
                     value |-> IF backend = "file"
                               THEN get_message_count(files, sid)
                               ELSE get_message_count_pg(table, sid)]
    /\ UNCHANGED <<sessVars, stream, workerVars, table, clock, faults,
                   backend, poolVars, files, saved, connVars, serviceVars>>

InitStoreOnly ==
    /\ InitGateway
    /\ table = <<>>
    /\ faults = 0
    /\ InitStore({"file", "postgres"})
    /\ InitConn
    /\ InitService({TRUE})

NextStore ==
    \/ \E sid \in Directory, message_data \in StoreEvents :
          SaveMessage(sid, message_data)
    \/ \E sid \in Directory, limit \in Limits : GetMessages(sid, limit)
    \/ \E sid \in Directory : ClearHistory(sid)
    \/ \E sid \in Directory : GetMessageCount(sid)

SpecStore == InitStoreOnly /\ [][NextStore]_vars

\* the save_message calls of a room still stored, in the order made
Stored(sid) == SelectSeq(saved, LAMBDA c : c.server_id = sid)

SameEvent(m, e) ==
    \A k \in {"type", "event", "username", "text"} : Get(m, k) = Get(e, k)

Returned == last_call.op = "get_messages"

\* C7: get_messages(R, L) with L >= 1 returns at most L events, and with
\* more than L stored it returns L events that are the last L saved, oldest
\* first.
C7_MostRecentL ==
    (Returned /\ last_call.limit >= 1) =>
        LET st == Stored(last_call.server_id)
            L == last_call.limit
            value == last_call.value
        IN  /\ Len(value) <= L
            /\ Len(st) > L =>
                  /\ Len(value) = L
                  /\ \A i \in 1..L :
                        SameEvent(value[i],
                                  st[Len(st) - L + i].message_data)

\* C8: get_messages(R, 0) returns the empty sequence, and get_messages(R, L)
\* with L greater than the number k of stored events returns k events,
\* every stored one among them.
C8_LimitBoundaries ==
    Returned =>
        LET st == Stored(last_call.server_id)
            value == last_call.value
        IN  /\ last_call.limit = 0 => value = <<>>
            /\ last_call.limit > Len(st) =>
                  /\ Len(value) = Len(st)
                  /\ \A j \in DOMAIN st : \E i \in DOMAIN value :
                        SameEvent(value[i], st[j].message_data)

\* C9: get_messages(R) with the default limit, above the stored count,
\* returns the saved events of R in the order saved, each with its type,
\* event, username and text as saved and with a timestamp in UTC: the
\* save time when the event had none, the same instant when it had one.
C9_RoundTrip ==
    (Returned /\ last_call.limit = DEFAULT_LIMIT) =>
        LET st == Stored(last_call.server_id)
            value == last_call.value
        IN  /\ Len(value) = Len(st)
            /\ \A i \in DOMAIN st :
                  LET e == st[i].message_data
                  IN  /\ SameEvent(value[i], e)
                      /\ "timestamp" \in DOMAIN value[i]
                      /\ "timestamp" \notin DOMAIN e =>
                            value[i].timestamp = utc(st[i].at)
                      /\ ("timestamp" \in DOMAIN e /\ e.timestamp.valid) =>
                            value[i].timestamp = utc(e.timestamp.inst)

(***************************************************************************)
(* get_nats: the cached bus connection of one process, under concurrent    *)
(* callers.  A caller is suspended in await nats.connect(...) between the  *)
(* liveness check and the assignment to _nats_connection.                  *)
(***************************************************************************)
\* _nats_connection is not None and _nats_connection.is_connected
is_live(n) == n # 0 /\ connections[n] = "connected"

\* get_nats up to the first await: return the cached connection, or go on
\* to nats.connect
GetNatsCheck(c) ==
    /\ cpc[c] = "idle"
    /\ calls[c] < MaxCalls
    /\ IF is_live(_nats_connection)
       THEN /\ returned' = [returned EXCEPT ![c] = _nats_connection]
            /\ calls' = [calls EXCEPT ![c] = @ + 1]
            /\ UNCHANGED cpc
       ELSE /\ cpc' = [cpc EXCEPT ![c] = "connecting"]
            /\ UNCHANGED <<returned, calls>>
    /\ UNCHANGED <<serviceVars, gatewayVars, storeVars, _nats_connection,
                   connections, _js, js>>

\* nats.connect returns a new connection, which is cached and returned; or
\* it raises and the cache stays as it was
GetNatsConnect(c) ==
    /\ cpc[c] = "connecting"
    /\ \E ok \in BOOLEAN :
          /\ Outcome(ok)
          /\ IF ok
             THEN /\ connections' = Append(connections, "connected")
                  /\ _nats_connection' = Len(connections) + 1
                  /\ returned' = [returned EXCEPT
                                     ![c] = Len(connections) + 1]
             ELSE /\ returned' = [returned EXCEPT ![c] = 0]
                  /\ UNCHANGED <<connections, _nats_connection>>
    /\ cpc' = [cpc EXCEPT ![c] = "idle"]
    /\ calls' = [calls EXCEPT ![c] = @ + 1]
    /\ UNCHANGED <<serviceVars, sessVars, stream, workerVars, table, clock,
                   storeVars, _js, js>>

\* the server or the network ends a connection
ConnectionLost(n) ==
    /\ connections[n] = "connected"
    /\ connections' = [connections EXCEPT ![n] = "closed"]
    /\ UNCHANGED <<serviceVars, gatewayVars, storeVars, _nats_connection, cpc, calls,
                   returned, _js, js>>

InitConnOnly ==
    /\ InitGateway
    /\ table = <<>>
    /\ faults = MaxFaults
    /\ InitStore({"postgres"})
    /\ InitConn
    /\ InitService({TRUE})

NextConn ==
    \/ \E c \in Callers : GetNatsCheck(c)
    \/ \E c \in Callers : GetNatsConnect(c)
    \/ \E n \in DOMAIN connections : ConnectionLost(n)

SpecConn == InitConnOnly /\ [][NextConn]_vars

LiveConnections == { n \in DOMAIN connections : connections[n] = "connected" }

\* C6: at no moment does the process hold more than one live connection.
C6_AtMostOneLiveConnection == Cardinality(LiveConnections) <= 1


(***************************************************************************)
(* run_service from entry to exit: the retry loop around the store's       *)
(* init, the bus connection, the discovery subscription, the wait for the  *)
(* stop signal and the finally block.  The bus connection is up when the   *)
(* finally block runs.                                                     *)
(***************************************************************************)
backoff_uncapped(k) == 5 * k

\* min(5 * attempt, 30)
backoff(k) == Min(5 * k, 30)

\* The database starts to accept connections.
StoreRecovers ==
    /\ ~storeUp
    /\ storeUp' = TRUE
    /\ UNCHANGED <<gatewayVars, storeVars, connVars, attempt, sleeps, missed,
                   handlerRaised, shutdown>>

\* One iteration of the while True loop: init() returns and the loop is
\* left, or it raises, attempt is incremented and the loop sleeps.
InitRetry ==
    /\ wpc = "init"
    /\ IF storeUp
       THEN /\ wpc' = "connect"
            /\ UNCHANGED <<attempt, sleeps>>
       ELSE /\ attempt < MaxAttempts
            /\ attempt' = attempt + 1
            /\ sleeps' = Append(sleeps, backoff(attempt + 1))
            /\ UNCHANGED wpc
    /\ UNCHANGED <<sessVars, stream, watchQ, pings, active_room_subs,
                   workerSubs, workerQ, saveFailed, table, clock, faults>>
    /\ UNCHANGED <<legacy_sub, legacy_inbox>>
    /\ UNCHANGED <<storeVars, connVars, storeUp, missed, handlerRaised,
                   shutdown>>

\* nc = await get_nats(): nats.connect returns a connection or raises, and
\* nothing in run_service catches what it raises.
ServiceGetNats ==
    /\ wpc = "connect"
    /\ \E ok \in BOOLEAN :
          /\ Outcome(ok)
          /\ wpc' = IF ok THEN "subscribe" ELSE "connect_error"
    /\ UNCHANGED <<sessVars, stream, watchQ, pings, active_room_subs,
                   workerSubs, workerQ, saveFailed, table, clock>>
    /\ UNCHANGED <<legacy_sub, legacy_inbox>>
    /\ UNCHANGED <<storeVars, connVars, serviceVars>>

\* await nc.subscribe("chat.history.watch.*", cb=watch_handler)
SubscribeWatch ==
    /\ wpc = "subscribe"
    /\ \E ok \in BOOLEAN :
          /\ Outcome(ok)
          /\ wpc' = IF ok THEN "running" ELSE "subscribe_error"
    /\ UNCHANGED <<sessVars, stream, watchQ, pings, active_room_subs,
                   workerSubs, workerQ, saveFailed, table, clock>>
    /\ UNCHANGED <<legacy_sub, legacy_inbox>>
    /\ UNCHANGED <<storeVars, connVars, serviceVars>>

\* the discovery subscription exists
DiscoveryOpen == wpc \in {"running", "rooms", "drain", "shutdown_error"}

\* nc.publish("chat.history.watch.<r>") of some session while the worker has
\* no discovery subscription: the bus delivers it to nobody.
PingMissed(r) ==
    /\ wpc \in {"init", "connect", "subscribe"}
    /\ LET m == [room |-> r, retrying |-> wpc = "init" /\ attempt > 0]
       IN  /\ m \notin missed
           /\ missed' = missed \cup {m}
    /\ UNCHANGED <<gatewayVars, storeVars, connVars, attempt, sleeps, storeUp,
                   handlerRaised, shutdown>>

\* SIGINT or SIGTERM sets stop_event; run_service enters its finally block.
StopEvent ==
    /\ wpc = "running"
    /\ wpc' = "rooms"
    /\ UNCHANGED <<sessVars, stream, watchQ, pings, active_room_subs,
                   workerSubs, workerQ, saveFailed, table, clock, faults>>
    /\ UNCHANGED <<legacy_sub, legacy_inbox>>
    /\ UNCHANGED <<storeVars, connVars, serviceVars>>

\* The loop over active_room_subs: every unsubscribe is awaited, one that
\* raises is passed over.
UnsubscribeRooms ==
    /\ wpc = "rooms"
    /\ \E failed \in SUBSET active_room_subs :
          /\ Cardinality(failed) <= faults
          /\ faults' = faults - Cardinality(failed)
          /\ workerSubs' = [r \in Directory |->
                              IF r \in active_room_subs \ failed
                              THEN 0 ELSE workerSubs[r]]
          /\ workerQ' = [r \in Directory |->
                           IF r \in active_room_subs \ failed
                           THEN <<>> ELSE workerQ[r]]
          /\ shutdown' = Append(shutdown,
                                [step |-> "rooms", tried |-> active_room_subs,
                                 failed |-> failed])
    /\ wpc' = "drain"
    /\ UNCHANGED <<sessVars, stream, watchQ, pings, active_room_subs,
                   saveFailed, table, clock>>
    /\ UNCHANGED <<legacy_sub, legacy_inbox>>
    /\ UNCHANGED <<storeVars, connVars, attempt, sleeps, storeUp, missed,
                   handlerRaised>>

\* await _nats_connection.drain() inside try ... finally: pass, which
\* catches nothing: a drain that raises ends run_service with the error and
\* close() is not reached.
Drain ==
    /\ wpc = "drain"
    /\ \E ok \in BOOLEAN :
          /\ Outcome(ok)
          /\ shutdown' = Append(shutdown, [step |-> "drain", ok |-> ok])
          /\ IF ok
             THEN /\ wpc' = "close"
                  /\ workerSubs' = [r \in Directory |-> 0]
                  /\ workerQ' = [r \in Directory |-> <<>>]
                  /\ watchQ' = <<>>
             ELSE /\ wpc' = "shutdown_error"
                  /\ UNCHANGED <<workerSubs, workerQ, watchQ>>
    /\ UNCHANGED <<sessVars, stream, pings, active_room_subs, saveFailed,
                   table, clock>>
    /\ UNCHANGED <<legacy_sub, legacy_inbox>>
    /\ UNCHANGED <<storeVars, connVars, attempt, sleeps, storeUp, missed,
                   handlerRaised>>

\* await _nats_connection.close(), in the same try ... finally: pass
Close ==
    /\ wpc = "close"
    /\ \E ok \in BOOLEAN :
          /\ Outcome(ok)
          /\ shutdown' = Append(shutdown, [step |-> "close", ok |-> ok])
          /\ wpc' = IF ok THEN "stopped" ELSE "shutdown_error"
    /\ UNCHANGED <<sessVars, stream, watchQ, pings, active_room_subs,
                   workerSubs, workerQ, saveFailed, table, clock>>
    /\ UNCHANGED <<legacy_sub, legacy_inbox>>
    /\ UNCHANGED <<storeVars, connVars, attempt, sleeps, storeUp, missed,
                   handlerRaised>>

\* The start of run_service with sessions pinging around it.
InitBoot ==
    /\ InitGateway
    /\ table = <<>>
    /\ faults = MaxFaults
    /\ InitStore({"postgres"})
    /\ InitConn
    /\ InitService(BOOLEAN)

NextBoot ==
    \/ StoreRecovers
    \/ InitRetry
    \/ ServiceGetNats
    \/ SubscribeWatch
    \/ \E r \in Directory : PingMissed(r)
    \/ \E r \in Directory : PingFrom(r)
    \/ watch_handler

SpecBoot == InitBoot /\ [][NextBoot]_vars

\* The started worker until run_service returns or raises.
NextService ==
    \/ WorkerStart
    \/ \E r \in Directory : PingFrom(r)
    \/ \E r \in Directory : PublishedOn(r)
    \/ \E r \in Directory : PublishedOdd(r)
    \/ watch_handler
    \/ \E sid \in Directory : handler(sid)
    \/ StopEvent
    \/ UnsubscribeRooms
    \/ Drain
    \/ Close

SpecService == InitWorker /\ [][NextService]_vars

\* C15: after the k-th consecutive failure of the store's init the worker
\* waits min(5k, 30) seconds, so the waits never decrease and never exceed
\* 30; the worker is past the loop only if no wait is missing from the
\* count, and it leaves the loop only in a step in which init succeeds.
C15_InitBackoff ==
    /\ [](/\ Len(sleeps) = attempt
          /\ \A k \in DOMAIN sleeps :
                /\ sleeps[k] = (IF 5 * k <= 30 THEN 5 * k ELSE 30)
                /\ sleeps[k] <= 30
                /\ k > 1 => sleeps[k - 1] <= sleeps[k]
          /\ wpc = "init" => /\ active_room_subs = {}
                             /\ watchQ = <<>>
                             /\ table = <<>>)
    /\ [][wpc = "init" /\ wpc' # "init" =>
            /\ storeUp
            /\ wpc' = "connect"
            /\ UNCHANGED <<attempt, sleeps>>]_vars
    /\ [][attempt' # attempt => ~storeUp /\ wpc' = "init"]_vars

C15_Witness ==
    /\ wpc = "running"
    /\ attempt = 7
    /\ sleeps = <<5, 10, 15, 20, 25, 30, 30>>

\* a ping published between two failed tries of the store's init
DuringRetry(m) == m.retrying

\* C16: once the worker has come through the retry loop and is idle with no
\* bus call having failed, every room that was pinged while the store's
\* init was being retried has a chat.<R> subscription.
C16_PingsDuringRetry ==
    (wpc = "running" /\ watchQ = <<>> /\ faults = MaxFaults)
    => \A m \in missed : DuringRetry(m) => m.room \in active_room_subs

\* C17: run_service is never ended by the error of a bus connection that
\* could not be established when the worker started.
C17_BusRetried == wpc # "connect_error"

\* a payload the handler is to store: an object with an integer serverId
WellFormed(payload) ==
    /\ Wire(payload) = "object"
    /\ "serverId" \in DOMAIN payload
    /\ isinstance_int(payload.serverId)

\* C18: no payload makes the persistence handler raise, and every row of the
\* store comes from a well-formed payload and is filed under its room.
C18_HandlerNeverRaises ==
    /\ ~handlerRaised
    /\ \A k \in DOMAIN table :
          /\ WellFormed(table[k].raw_data)
          /\ table[k].server_id = table[k].raw_data.serverId

\* Every subscription has its own task that hands pending payloads to the
\* callback.
SpecWorkerLive ==
    /\ InitWorker
    /\ [][NextWorker]_vars
    /\ \A sid \in Directory : WF_vars(handler(sid))

\* C19: a step in which a store write fails changes neither the room
\* mapping nor any subscription nor the worker's position and raises
\* nothing; and once writes succeed again, a well-formed event pending on a
\* room is stored unless the worker is told to stop first.
C19_SaveFailureContained ==
    /\ [][saveFailed' # saveFailed =>
            /\ UNCHANGED <<active_room_subs, workerSubs, wpc, watchQ, table,
                           handlerRaised>>
            /\ \A r \in Directory :
                  workerQ'[r] = workerQ[r] \/ workerQ'[r] = Tail(workerQ[r])]_vars
    /\ \A r \in Directory : \A n \in 0..MaxEvents :
          (/\ saveFailed /\ faults = 0 /\ wpc = "running"
           /\ workerQ[r] # <<>> /\ WellFormed(Head(workerQ[r]))
           /\ Len(table) = n)
          ~> (\/ wpc # "running"
              \/ /\ Len(table) > n
                 /\ table[Len(table)].server_id = r)

C19_Witness ==
    /\ saveFailed
    /\ wpc = "running"
    /\ Len(stream) = 2
    /\ \A i \in 1..2 : stream[i].subject = 1 /\ WellFormed(stream[i].data)
    /\ workerQ[1] = <<>>
    /\ workerSubs[1] = 1
    /\ active_room_subs = {1}
    /\ Len(table) = 1
    /\ table[1].raw_data = stream[2].data

\* run_service has returned or has been left by an exception of its
\* finally block
ShutdownOver == wpc \in {"stopped", "shutdown_error"}

\* C20: when the shutdown is over, no failure of a step has left
\* run_service, and the room subscriptions, the drain and the close have
\* each been attempted, in this order, with every room of the mapping tried.
C20_ShutdownTolerant ==
    ShutdownOver =>
        /\ wpc = "stopped"
        /\ [k \in DOMAIN shutdown |-> shutdown[k].step]
              = <<"rooms", "drain", "close">>
        /\ shutdown[1].tried = active_room_subs

(***************************************************************************)
(* One connection from request to return, and one publish of another      *)
(* client on some room once the connection's endpoint is over              *)
(***************************************************************************)
\* websocket_endpoint has returned or was left by an exception
Terminated(s) == pc[s] \in {"rejected", "closed", "escaped", "raised", "done"}

\* another client's publish on chat.<r>
OtherPublishes(r) ==
    /\ \A s \in Solo : Terminated(s)
    /\ \A i \in DOMAIN stream : stream[i].by # "s2"
    /\ Publish("s2", r, legacy_message_payload(r, <<"y", "o">>, <<"b">>))
    /\ UNCHANGED <<variant, pc, server_id, username, accepted, closeCode,
                   wsOpen, subActive, unsubCalls, sender_task, sent,
                   history_messages, received, pubFailed, wpc, watchQ, pings,
                   active_room_subs, workerSubs, saveFailed, table, faults>>
    /\ UNCHANGED <<fetched, replayed>>
    /\ UNCHANGED legacy_sub
    /\ UNCHANGED <<serviceVars, storeVars, connVars, closing, forwarded>>

NextClosing ==
    \/ Next
    \/ \E r \in Directory : OtherPublishes(r)

SpecClosing == Init /\ [][NextClosing]_vars

\* C21: unsubscribe is called at most once per session, exactly once when
\* the session opened a subscription and has gone through Closing; a
\* subscription is active only between the subscribe and the unsubscribe of
\* its session; and once the session has terminated its handler enqueues
\* nothing more.
C21_UnsubscribedOnce ==
    /\ [](\A s \in Solo :
            /\ unsubCalls[s] <= 1
            /\ pc[s] \in {"cancel", "done"} => unsubCalls[s] = 1
            /\ (Terminated(s) /\ pc[s] # "done") => unsubCalls[s] = 0
            /\ Terminated(s) => ~subActive[s]
            /\ subActive[s] => unsubCalls[s] = 0)
    /\ [][\A s \in Solo :
            Terminated(s) => /\ enqueued'[s] = enqueued[s]
                             /\ send_queue'[s] = send_queue[s]
                             /\ unsubCalls'[s] = unsubCalls[s]]_vars

C21_Witness ==
    /\ pc["s1"] = "done"
    /\ unsubCalls["s1"] = 1
    /\ Len(stream) >= 3
    /\ stream[Len(stream)].by = "s2"
    /\ stream[Len(stream)].subject = server_id["s1"]
    /\ stream[Len(stream) - 1].by = "s1"
    /\ enqueued["s1"][Len(enqueued["s1"])] = stream[Len(stream) - 1].data

(***************************************************************************)
(* The store, room by room                                                 *)
(***************************************************************************)
\* the rows of a room, in insertion order
RowsOf(tab, sid) == SelectSeq(tab, LAMBDA row : row.server_id = sid)

\* C22: a step that changes what is stored for a room is a save_message or
\* a clear_history call on that very room, so a call on R leaves every other
\* room as it was; and get_messages(R) returns no more events than are
\* stored for R, each of them one saved under R.
C22_RoomsIsolated ==
    /\ [](Returned =>
            LET st == Stored(last_call.server_id)
                value == last_call.value
            IN  /\ Len(value) <= Len(st)
                /\ \A i \in DOMAIN value : \E j \in DOMAIN st :
                      SameEvent(value[i], st[j].message_data))
    /\ [][\A r \in Directory :
            (files'[r] # files[r] \/ RowsOf(table', r) # RowsOf(table, r))
            => /\ last_call'.op \in {"save_message", "clear_history"}
               /\ last_call'.server_id = r]_vars

C22_Witness ==
    /\ last_call.op = "clear_history"
    /\ last_call.server_id = 1
    /\ Len(files[1]) + Len(RowsOf(table, 1)) = 0
    /\ Len(Stored(2)) = 2
    /\ Len(files[2]) + Len(RowsOf(table, 2)) = 2

Counted == last_call.op = "get_message_count"

\* C23: get_message_count(R) is the number of save_message(R, .) calls made
\* since the last clear_history(R), and get_messages(R) with its default
\* limit is empty exactly when that number is 0.
C23_CountMatchesSaves ==
    /\ Counted => last_call.value = Len(Stored(last_call.server_id))
    /\ (Returned /\ last_call.limit = DEFAULT_LIMIT) =>
          (last_call.value = <<>> <=> Len(Stored(last_call.server_id)) = 0)

C23_Witness ==
    /\ Counted
    /\ last_call.server_id = 1
    /\ last_call.value = 1
    /\ Len(saved) = 2
    /\ saved[1].server_id = 2
    /\ clock = 4

(***************************************************************************)
(* The file store over files that something else has written to as well:  *)
(* a line that is not JSON or a blank line can follow any line             *)
(***************************************************************************)
\* a write to server_<sid>_history.jsonl that does not come from
\* save_message
ForeignLine(sid) ==
    /\ clock <= MaxSaves
    /\ \E line \in {NotJson, BlankLine} :
          files' = [files EXCEPT ![sid] = Append(@, line)]
    /\ clock' = clock + 1
    /\ UNCHANGED <<sessVars, stream, workerVars, table, faults, backend, poolVars,
                   saved, last_call, connVars, serviceVars>>

InitFile ==
    /\ InitGateway
    /\ table = <<>>
    /\ faults = 0
    /\ InitStore({"file"})
    /\ InitConn
    /\ InitService({TRUE})

NextFile ==
    \/ \E sid \in Directory, message_data \in StoreEvents :
          SaveMessage(sid, message_data)
    \/ \E sid \in Directory : ForeignLine(sid)
    \/ \E sid \in Directory, limit \in Limits : GetMessages(sid, limit)
    \/ \E sid \in Directory : ClearHistory(sid)
    \/ \E sid \in Directory : GetMessageCount(sid)

SpecFile == InitFile /\ [][NextFile]_vars

\* the records among the lines of a room's file, in file order
ValidRecords(sid) ==
    SelectSeq(files[sid], LAMBDA line : Wire(line) = "object")

\* C24: get_messages without an effective limit returns the valid records
\* of the file in file order, whatever malformed lines lie between them.
C24_MalformedSkipped ==
    (Returned /\ last_call.limit = DEFAULT_LIMIT) =>
        last_call.value = ValidRecords(last_call.server_id)

C24_Witness ==
    /\ Returned
    /\ last_call.limit = DEFAULT_LIMIT
    /\ last_call.server_id = 1
    /\ Len(files[1]) = 3
    /\ Wire(files[1][1]) = "object"
    /\ files[1][2] = NotJson
    /\ Wire(files[1][3]) = "object"
    /\ files[1][1] # files[1][3]
    /\ last_call.value = <<files[1][1], files[1][3]>>

\* C29: whatever the file of a room holds, get_message_count(R) is the
\* number of records get_messages(R) returns when no limit cuts the result
\* (a limit of None or 0 is falsy and cuts nothing).
C29_CountMatchesRecords ==
    Counted =>
        last_call.value = Len(get_messages(files, last_call.server_id, 0))

(***************************************************************************)
(* The history replay of a joining session                                 *)
(***************************************************************************)
\* the records the replay loop wrote to the client, in the order written
Written(s) ==
    LET done == SelectSeq(replayed[s], LAMBDA a : a.ok)
    IN  [k \in DOMAIN done |-> done[k].msg]

\* the replay loop has been left
ReplayOver(s) ==
    /\ variant[s] = "prototype"
    /\ \/ pc[s] = "join"
       \/ pc[s] = "read"
       \/ InFinally(s)

\* C25: on the gateway that replays history, the session fetches at most 50 records, a fetch that raises counts
\* as no record; the replay loop attempts the fetched records one by one in
\* the order returned, going on after a send that failed; the session
\* publishes nothing before the loop is over and is not ended by the loop.
C25_HistoryReplay ==
    \A s \in Solo : variant[s] = "prototype" =>
        /\ Len(fetched[s].value) <= HISTORY_LIMIT
        /\ fetched[s].state # "returned" => fetched[s].value = <<>>
        /\ Len(replayed[s]) <= Len(fetched[s].value)
        /\ \A k \in DOMAIN replayed[s] :
              replayed[s][k].msg = fetched[s].value[k]
        /\ pc[s] = "replay" =>
              history_messages[s]
                 = SubSeq(fetched[s].value, Len(replayed[s]) + 1,
                          Len(fetched[s].value))
        /\ ReplayOver(s) => Len(replayed[s]) = Len(fetched[s].value)
        /\ (\E i \in DOMAIN stream : stream[i].by = s) => ReplayOver(s)
        /\ replayed[s] # <<>> => pc[s] \notin {"raised", "escaped", "closed"}

C25_Witness ==
    /\ pc["s1"] = "read"
    /\ fetched["s1"].state = "returned"
    /\ Len(replayed["s1"]) = 2
    /\ replayed["s1"][1].ok
    /\ ~replayed["s1"][2].ok
    /\ \E i \in DOMAIN stream : stream[i].by = "s1" /\ IsJoin(stream[i])

(***************************************************************************)
(* What one session publishes on its room                                  *)
(***************************************************************************)
\* the events of a session on the bus, in publish order
EventsOf(s) == SelectSeq(stream, LAMBDA e : e.by = s)

\* C26: of the events a session published, a join is the first one, a leave
\* is the last one and is there only once the session is past the first step
\* of its finally block, there is at most one of each, and everything
\* between them is a message on the session's room.
C26_JoinMessagesLeave ==
    \A s \in Solo :
        LET E == EventsOf(s)
        IN  /\ \A i \in DOMAIN E :
                  /\ E[i].subject = server_id[s]
                  /\ IsJoin(E[i]) \/ IsMessage(E[i]) \/ IsLeave(E[i])
                  /\ IsJoin(E[i]) => i = 1
                  /\ IsLeave(E[i]) =>
                        /\ i = Len(E)
                        /\ InFinally(s) /\ pc[s] # "closing"
                        /\ closing[s][1].ok
            /\ (pc[s] = "read" \/ received[s] # <<>>) =>
                  (E # <<>> /\ IsJoin(E[1]))
            /\ Len(MessagesOf(s)) <= Len(received[s])

C26_Witness ==
    LET E == EventsOf("s1")
    IN  /\ pc["s1"] = "done"
        /\ Len(E) = 4
        /\ IsJoin(E[1]) /\ IsMessage(E[2]) /\ IsMessage(E[3]) /\ IsLeave(E[4])

(***************************************************************************)
(* get_jetstream: the cached JetStream context of the gateway process.  A  *)
(* context is bound to the connection whose jetstream() made it; the model *)
(* names a context by that connection.  A caller is a session between its  *)
(* accept and its first publish.                                           *)
(***************************************************************************)
\* if _js is not None: return _js, else js = nc.jetstream() and go on to
\* await js.add_stream(...); nc is the connection get_nats just returned
jetstream_after_get_nats(c, nc) ==
    IF _js # 0
    THEN /\ js' = [js EXCEPT ![c] = [ctx |-> _js, nc |-> nc, pub |-> "none"]]
         /\ cpc' = [cpc EXCEPT ![c] = "session"]
    ELSE /\ cpc' = [cpc EXCEPT ![c] = "add_stream"]
         /\ UNCHANGED js

\* get_jetstream up to its first await: get_nats returns the cached
\* connection without suspending, or goes on to nats.connect
GetJetstream(c) ==
    /\ cpc[c] = "idle"
    /\ calls[c] < MaxCalls
    /\ IF is_live(_nats_connection)
       THEN /\ returned' = [returned EXCEPT ![c] = _nats_connection]
            /\ jetstream_after_get_nats(c, _nats_connection)
       ELSE /\ cpc' = [cpc EXCEPT ![c] = "js_connecting"]
            /\ UNCHANGED <<returned, js>>
    /\ UNCHANGED <<serviceVars, gatewayVars, storeVars, _nats_connection,
                   connections, calls, _js>>

\* nats.connect inside get_jetstream's get_nats returns a new connection,
\* which is cached, and get_jetstream goes on; or it raises, and the
\* endpoint closes the socket with 1013
JetstreamConnect(c) ==
    /\ cpc[c] = "js_connecting"
    /\ \E ok \in BOOLEAN :
          /\ Outcome(ok)
          /\ IF ok
             THEN /\ connections' = Append(connections, "connected")
                  /\ _nats_connection' = Len(connections) + 1
                  /\ returned' = [returned EXCEPT
                                     ![c] = Len(connections) + 1]
                  /\ jetstream_after_get_nats(c, Len(connections) + 1)
                  /\ UNCHANGED calls
             ELSE /\ returned' = [returned EXCEPT ![c] = 0]
                  /\ cpc' = [cpc EXCEPT ![c] = "idle"]
                  /\ calls' = [calls EXCEPT ![c] = @ + 1]
                  /\ UNCHANGED <<connections, _nats_connection, js>>
    /\ UNCHANGED <<serviceVars, sessVars, stream, workerVars, table, clock,
                   storeVars, _js>>

\* await js.add_stream(...) returns or raises, the exception is passed
\* over; _js = js; return _js
AddStream(c) ==
    /\ cpc[c] = "add_stream"
    /\ \E ok \in BOOLEAN : Outcome(ok)
    /\ _js' = returned[c]
    /\ js' = [js EXCEPT ![c] = [ctx |-> returned[c], nc |-> returned[c],
                                pub |-> "none"]]
    /\ cpc' = [cpc EXCEPT ![c] = "session"]
    /\ UNCHANGED <<serviceVars, sessVars, stream, workerVars, table, clock,
                   storeVars, _nats_connection, connections, calls, returned>>

\* await js.publish(subject, ...) of the session that holds js: it goes
\* out on the connection the context is bound to, and raises when that
\* connection is closed
SessionPublish(c) ==
    /\ cpc[c] = "session"
    /\ js' = [js EXCEPT ![c].pub =
                 IF connections[js[c].ctx] = "connected" THEN "ok"
                 ELSE "raised"]
    /\ cpc' = [cpc EXCEPT ![c] = "idle"]
    /\ calls' = [calls EXCEPT ![c] = @ + 1]
    /\ UNCHANGED <<serviceVars, gatewayVars, storeVars, _nats_connection,
                   connections, returned, _js>>

NextJetstream ==
    \/ \E c \in Callers : GetJetstream(c)
    \/ \E c \in Callers : JetstreamConnect(c)
    \/ \E c \in Callers : AddStream(c)
    \/ \E c \in Callers : SessionPublish(c)
    \/ \E n \in DOMAIN connections : ConnectionLost(n)

SpecJetstream == InitConnOnly /\ [][NextJetstream]_vars

\* C27: the context get_jetstream hands to a session is bound to the
\* connection get_nats returned to that same call, so a session never
\* publishes through a context of a connection that was replaced before
\* the session asked for it.  Stated for a caller that is alone in the
\* process, so that no two calls of get_nats overlap.
C27_ContextOfCachedConnection ==
    \A c \in Callers :
        (\A d \in Callers \ {c} : calls[d] = 0 /\ cpc[d] = "idle") =>
            (js[c].ctx # 0 => js[c].ctx = js[c].nc)


(***************************************************************************)
(* The history replay and the forwarder of one session                     *)
(***************************************************************************)
\* C28: what a session of the prototype gateway wrote to its client is the
\* history records it replayed followed by the live payloads its forwarder
\* took from the bus: no live payload is written before a history record.
C28_HistoryBeforeLive ==
    \A s \in Sessions :
        variant[s] = "prototype" => sent[s] = Written(s) \o forwarded[s]


(***************************************************************************)
(* The legacy history worker (message_history_service.py) on the bus of    *)
(* the prototype gateway: one subscription on chat.>, every payload with   *)
(* an integer serverId appended to that room's history file                *)
(***************************************************************************)
\* sub = await nc.subscribe("chat.>", cb=handler)
LegacyWorkerStart ==
    /\ ~legacy_sub
    /\ legacy_sub' = TRUE
    /\ UNCHANGED <<sessVars, stream, wpc, watchQ, pings, active_room_subs,
                   workerSubs, workerQ, saveFailed, legacy_inbox, table,
                   clock, faults>>
    /\ UNCHANGED <<serviceVars, storeVars, connVars>>

\* the oldest message the subscription holds that handler has not had
Unhandled == { i \in DOMAIN legacy_inbox : ~legacy_inbox[i].handled }

\* handler of the legacy worker: a payload that does not decode is passed
\* over; data.get("serverId") must be an int for _append_message to run,
\* and what _append_message raises is swallowed
legacy_handler ==
    /\ legacy_sub
    /\ Unhandled # {}
    /\ LET i == CHOOSE k \in Unhandled : \A j \in Unhandled : k <= j
           data == legacy_inbox[i].data
       IN  /\ legacy_inbox' = [legacy_inbox EXCEPT ![i].handled = TRUE]
           /\ IF ~decodable(data)
              THEN UNCHANGED <<files, faults, handlerRaised>>
              ELSE IF ~has_get(data)
              THEN /\ handlerRaised' = TRUE
                   /\ UNCHANGED <<files, faults>>
              ELSE IF ~numeric_serverId(data)
              THEN UNCHANGED <<files, faults, handlerRaised>>
              ELSE \E ok \in BOOLEAN :
                      /\ Outcome(ok)
                      /\ files' = IF ok
                                  THEN save_message(files, data.serverId,
                                                    data, clock)
                                  ELSE files
                      /\ UNCHANGED handlerRaised
    /\ UNCHANGED <<sessVars, stream, wpc, watchQ, pings, active_room_subs,
                   workerSubs, workerQ, saveFailed, legacy_sub, table, clock>>
    /\ UNCHANGED <<backend, poolVars, saved, last_call, connVars, attempt, sleeps,
                   storeUp, missed, shutdown>>

\* the first client connects to a room of the prototype gateway, the
\* second to a room of the legacy gateway on the same bus
Joins(s) ==
    Connect(s, {IF s = "s1" THEN "prototype" ELSE "legacy"}, Directory,
            {<<"a">>})

NextWildcard ==
    \/ \E s \in Sessions : Joins(s)
    \/ \E s \in Sessions : Subscribing(s)
    \/ \E s \in Sessions : LegacySubscribing(s)
    \/ \E s \in Sessions : FetchHistory(s)
    \/ \E s \in Sessions : ReplayHistory(s)
    \/ \E s \in Sessions : NotifyWatch(s)
    \/ \E s \in Sessions : PublishJoin(s)
    \/ \E s \in Sessions : LegacyPublishJoin(s)
    \/ \E s \in Sessions : ws_sender(s)
    \/ WorkerStart
    \/ watch_handler
    \/ \E sid \in Directory : handler(sid)
    \/ LegacyWorkerStart
    \/ legacy_handler

SpecWildcard == Init /\ [][NextWildcard]_vars

\* the payload of a discovery ping: an object without a key
IsPing(payload) == DOMAIN payload = {}

\* C30: a discovery ping is never kept and never reaches a client: the CHAT
\* stream does not hold it, no room subscription of a session or of the
\* worker gets it, nothing written to a client is a ping, no row and no line
\* of a history file comes from one, and the legacy worker, which does
\* receive it on chat.>, appends a line for nothing but the events it had.
C30_PingNeverStoredNorForwarded ==
    /\ \A i \in DOMAIN stream : ~IsPing(stream[i].data)
    /\ \A s \in Sessions :
          /\ \A i \in DOMAIN enqueued[s] : ~IsPing(enqueued[s][i])
          /\ \A i \in DOMAIN sent[s] : ~IsPing(sent[s][i])
    /\ \A r \in Directory :
          /\ \A i \in DOMAIN workerQ[r] : ~IsPing(workerQ[r][i])
          /\ \A i \in DOMAIN files[r] :
                /\ "serverId" \in DOMAIN files[r][i]
                /\ files[r][i].serverId = r
          /\ Len(files[r]) <=
                Cardinality({ i \in DOMAIN legacy_inbox :
                                 /\ legacy_inbox[i].handled
                                 /\ legacy_inbox[i].subject
                                       = room_subject(r) })
    /\ \A i \in DOMAIN table : ~IsPing(table[i].raw_data)

C30_Witness ==
    /\ \E i \in DOMAIN legacy_inbox :
          /\ legacy_inbox[i].subject = watch_subject(1)
          /\ IsPing(legacy_inbox[i].data)
          /\ legacy_inbox[i].handled
    /\ Unhandled = {}
    /\ pings[1] = 1 /\ watchQ = <<>>
    /\ subActive["s1"] /\ server_id["s1"] = 1 /\ pc["s1"] = "read"
    /\ subActive["s2"] /\ server_id["s2"] = 1 /\ pc["s2"] = "read"
    /\ Len(legacy_inbox) = 3
    /\ Len(files[1]) = 1
    /\ IsJoin([data |-> files[1][1]])
    /\ files[2] = <<>>


(***************************************************************************)
(* The worker's room mapping while it runs: pings for rooms, pings on a    *)
(* subject whose last token is no integer, joins and leaves on the rooms   *)
(***************************************************************************)
\* any client's publish on chat.history.watch.x
PingOnOddSubject ==
    /\ wpc = "running"
    /\ pings[0] + pings[1] + pings[2] < MaxPings
    /\ pings' = [pings EXCEPT ![0] = @ + 1]
    /\ watchQ' = Append(watchQ, "x")
    /\ UNCHANGED <<sessVars, stream, wpc, active_room_subs, workerSubs,
                   workerQ, saveFailed, legacy_sub, legacy_inbox, table,
                   clock, faults>>
    /\ UNCHANGED <<serviceVars, storeVars, connVars>>

\* the last client of room r leaves: its gateway publishes the leave event
PublishedLeave(r) ==
    /\ Len(stream) < MaxEvents
    /\ Publish("s1", r, legacy_leave_payload(r, <<"a">>))
    /\ UNCHANGED <<variant, pc, server_id, username, accepted, closeCode,
                   wsOpen, subActive, unsubCalls, sender_task, sent,
                   history_messages, received, pubFailed, wpc, watchQ, pings,
                   active_room_subs, workerSubs, saveFailed, table, faults>>
    /\ UNCHANGED <<fetched, replayed>>
    /\ UNCHANGED legacy_sub
    /\ UNCHANGED <<serviceVars, storeVars, connVars, closing, forwarded>>

NextWatch ==
    \/ WorkerStart
    \/ \E r \in Directory : PingFrom(r)
    \/ PingOnOddSubject
    \/ \E r \in Directory : PublishedLeave(r)
    \/ watch_handler
    \/ \E sid \in Directory : handler(sid)

SpecWatch == InitWorker /\ [][NextWatch]_vars

\* C31: while the worker runs, the rooms in its mapping are the rooms it
\* holds a chat.<R> subscription for, one each; a step adds a room only by
\* handling a ping for that room with a subscribe that succeeded, a ping
\* whose subscribe failed or whose subject ends in no integer leaves the
\* mapping as it was, and no step takes a room out.
C31_MappingIsLiveSubscriptions ==
    /\ [](wpc = "running" =>
            /\ active_room_subs = { r \in Directory : workerSubs[r] > 0 }
            /\ \A r \in Directory : workerSubs[r] <= 1)
    /\ [][(wpc = "running" /\ wpc' = "running") =>
            /\ active_room_subs \subseteq active_room_subs'
            /\ \A r \in active_room_subs' \ active_room_subs :
                  /\ watchQ # <<>> /\ Head(watchQ) = ToString(r)
                  /\ watchQ' = Tail(watchQ)
                  /\ workerSubs'[r] = 1
                  /\ faults' = faults
            /\ (watchQ # <<>> /\ watchQ' = Tail(watchQ)
                  /\ (faults' < faults \/ Head(watchQ) \notin IntLiterals))
                  => /\ active_room_subs' = active_room_subs
                     /\ workerSubs' = workerSubs]_vars

C31_Witness ==
    /\ wpc = "running"
    /\ active_room_subs = {1}
    /\ faults < MaxFaults /\ ~saveFailed
    /\ pings[1] = 2 /\ pings[2] = 0
    /\ pings[0] = 1
    /\ watchQ = <<>>
    /\ \E i \in DOMAIN stream : IsLeave(stream[i]) /\ stream[i].subject = 1
    /\ workerQ[1] = <<>>
    /\ table # <<>>


(***************************************************************************)
(* First uses of the Postgres store: init, save_message and get_messages   *)
(* called by coroutines of one process (the startup, sessions, the         *)
(* worker's handlers), each suspended at the awaits of the call it is in   *)
(***************************************************************************)
StoreOps == {"init", "save_message", "get_messages"}

\* a call ends, by return or by an exception
Finished(c) == [ppc EXCEPT ![c] = [op |-> "none", at |-> "idle", n |-> @.n + 1]]

\* A call up to its first await.  init returns when self.pool is set and
\* otherwise awaits create_pool; the others run _ensure_pool, which calls
\* init when self.pool is None, and then await self.pool.acquire().
StoreCall(c, op) ==
    /\ ppc[c].at = "idle"
    /\ ppc[c].n < MaxCalls
    /\ ppc' = IF pool = 0
              THEN [ppc EXCEPT ![c] = [op |-> op, at |-> "create_pool",
                                       n |-> @.n]]
              ELSE IF op = "init"
              THEN Finished(c)
              ELSE [ppc EXCEPT ![c] = [op |-> op, at |-> "acquire",
                                       n |-> @.n]]
    /\ UNCHANGED <<pool, pools, schema_done, queried, faults>>
    /\ UNCHANGED <<sessVars, stream, workerVars, table, clock, backend, files,
                   saved, last_call, connVars, serviceVars>>

\* self.pool = await asyncpg.create_pool(...): the pool is made and
\* assigned, and init goes on to await self._ensure_schema(); or
\* create_pool raises
CreatePool(c) ==
    /\ ppc[c].at = "create_pool"
    /\ \E ok \in BOOLEAN :
          /\ Outcome(ok)
          /\ IF ok
             THEN /\ pools' = pools + 1
                  /\ pool' = pools + 1
                  /\ ppc' = [ppc EXCEPT ![c].at = "ensure_schema"]
             ELSE /\ ppc' = Finished(c)
                  /\ UNCHANGED <<pool, pools>>
    /\ UNCHANGED <<schema_done, queried>>
    /\ UNCHANGED <<sessVars, stream, workerVars, table, clock, backend, files,
                   saved, last_call, connVars, serviceVars>>

\* _ensure_schema: CREATE TABLE IF NOT EXISTS ... on a connection of
\* self.pool; then init returns, and a save_message or get_messages that
\* called it goes on to acquire a connection.  What it raises ends the call.
EnsureSchema(c) ==
    /\ ppc[c].at = "ensure_schema"
    /\ \E ok \in BOOLEAN :
          /\ Outcome(ok)
          /\ IF ok
             THEN /\ schema_done' = TRUE
                  /\ ppc' = IF ppc[c].op = "init"
                            THEN Finished(c)
                            ELSE [ppc EXCEPT ![c].at = "acquire"]
             ELSE /\ ppc' = Finished(c)
                  /\ UNCHANGED schema_done
    /\ UNCHANGED <<pool, pools, queried>>
    /\ UNCHANGED <<sessVars, stream, workerVars, table, clock, backend, files,
                   saved, last_call, connVars, serviceVars>>

\* async with self.pool.acquire() as conn: the INSERT or the SELECT is
\* executed on a connection of the pool self.pool names at this moment
Query(c) ==
    /\ ppc[c].at = "acquire"
    /\ queried' = queried \cup {[op |-> ppc[c].op, pool |-> pool,
                                 schema |-> schema_done]}
    /\ ppc' = Finished(c)
    /\ UNCHANGED <<pool, pools, schema_done, faults>>
    /\ UNCHANGED <<sessVars, stream, workerVars, table, clock, backend, files,
                   saved, last_call, connVars, serviceVars>>

NextPool ==
    \/ \E c \in Callers, op \in StoreOps : StoreCall(c, op)
    \/ \E c \in Callers : CreatePool(c)
    \/ \E c \in Callers : EnsureSchema(c)
    \/ \E c \in Callers : Query(c)

SpecPool == InitConnOnly /\ [][NextPool]_vars

\* C32: whatever the interleaving of the first calls, at most one pool is
\* created, and every query runs after an _ensure_schema has completed.
C32_OnePoolSchemaFirst ==
    /\ pools <= 1
    /\ \A q \in queried : q.schema

====
